---- MODULE Spec2Model ----
(***************************************************************************)
(* Model of musicdl's download orchestrator:                               *)
(*   core/downloader.py  YTDLPDownloader.search_track, download_track,     *)
(*                       download_multiple, download_multiple_concurrent   *)
(*   ui/base_screen.py   BaseDownloadScreen._start_downloads,              *)
(*                       _stop_downloads, _download_worker,                *)
(*                       _download_sequential, _download_concurrent,       *)
(*                       _process_single_track, _download_complete         *)
(*   ui/app.py           MusicDownloaderApp._start_downloads,              *)
(*                       _stop_downloads, _download_worker                 *)
(*   core/models.py      TrackStatus, TrackItem, AppConfig                 *)
(* of its parsers (core/csv_parser.py, core/url_processor.py) and of the   *)
(* export of the results (TrackItem.to_dict, export_results).              *)
(***************************************************************************)
EXTENDS Integers, Sequences, FiniteSets, TLC

\* ------------------------------------------------------------------------
\* Bounds
\* ------------------------------------------------------------------------

\* largest batch handed to the orchestrator
NumTracks == 2

\* ------------------------------------------------------------------------
\* Data model (core/models.py)
\* ------------------------------------------------------------------------

TrackStatus == {"pending", "searching", "found", "downloading", "done", "error", "skipped"}

\* a freshly built TrackItem; u is the url field ("None" when absent)
TrackItem(u) ==
    [status |-> "pending", url |-> u, result_path |-> "None", error |-> "None"]

\* TrackItem is a plain @dataclass: eq=True without frozen/unsafe_hash sets
\* __hash__ to None, so an instance cannot be used as a dict key.
TrackItemHashable == FALSE

\* values of AppConfig.max_concurrent_downloads (an unvalidated int)
ConfigWorkers == {1, 2, 7}

\* an Optional[int]: <<>> is None, <<k>> is the integer k
None == <<>>
Some(k) == <<k>>

\* values callers pass as max_workers
RequestedWorkers == {None, Some(-1), Some(0), Some(1), Some(5), Some(100)}

\* batches as the builders produce them: every item Pending, all without a
\* url (csv_parser.build_track_items) or all with one (url_processor)
InitialBatches ==
    { [i \in 1..n |-> TrackItem(u)] : n \in 1..NumTracks, u \in {"None", "u"} }

VARIABLES
    tracks,           \* the batch: sequence of TrackItem records
    config,           \* AppConfig.max_concurrent_downloads
    is_running,       \* BaseDownloadScreen.is_running
    entry,            \* which entry point runs the batch
    dry_run,          \* the dry_run argument
    main,             \* position of the thread that runs the batch
    idx,              \* loop position of that thread (1-based)
    max_workers,      \* local max_workers of download_multiple_concurrent
    dt,               \* per item: position inside download_track / the pool
    ret,              \* per item: DownloadResult.success returned for it
    lock,             \* holder of threading.Lock() (0: free)
    completed_count,  \* nonlocal completed_count
    progress,         \* progress_callback invocations, in order
    results,          \* list returned by the batch call
    cancelled,        \* _stop_downloads has cleared is_running
    in_flight_at_stop,  \* the items that were being processed at that moment
    calls,            \* per item: collaborator invocations so far
    workers,          \* the worker threads started on one screen, oldest first
    args,             \* arguments of the parser function under analysis
    result            \* <<>> before that function is applied, <<value>> after

vars == <<tracks, config, is_running, entry, dry_run, main, idx, max_workers,
          dt, ret, lock, completed_count, progress, results, cancelled,
          in_flight_at_stop, calls, workers, args, result>>

\* the orchestrator's variables
dvars == <<tracks, config, is_running, entry, dry_run, main, idx, max_workers,
           dt, ret, lock, completed_count, progress, results, cancelled,
           in_flight_at_stop, calls, workers>>

N == Len(tracks)
Items == 1..N

Max(a, b) == IF a >= b THEN a ELSE b
Min(a, b) == IF a <= b THEN a ELSE b

Init ==
    /\ tracks \in InitialBatches
    /\ config \in ConfigWorkers
    /\ is_running = FALSE
    /\ entry = "none"
    /\ dry_run = FALSE
    /\ main = "idle"
    /\ idx = 1
    /\ max_workers = None
    /\ dt = [i \in DOMAIN tracks |-> "idle"]
    /\ ret = [i \in DOMAIN tracks |-> "none"]
    /\ lock = 0
    /\ completed_count = 0
    /\ progress = <<>>
    /\ results = <<>>
    /\ cancelled = FALSE
    /\ in_flight_at_stop = {}
    /\ calls = [i \in DOMAIN tracks |-> [search |-> 0, retrieve |-> 0]]
    /\ workers = <<>>
    /\ args = <<>>
    /\ result = <<>>

\* ------------------------------------------------------------------------
\* download_track / search_track (core/downloader.py)
\* ------------------------------------------------------------------------

\* `if not track.url`
NoUrl(i) == tracks[i].url \in {"None", ""}

\* a download_track that ignores its dry_run argument
DryRunIgnored == FALSE

\* the `if dry_run` tests of download_track
DryRunStops == dry_run

\* download_track up to its first suspension point: the url test, then either
\* search_track's status write, the dry-run return, or the DOWNLOADING write
BeginTrack(i) ==
    IF NoUrl(i)
    THEN /\ tracks' = [tracks EXCEPT ![i].status = "searching"]
         /\ dt' = [dt EXCEPT ![i] = "search"]
         /\ UNCHANGED ret
    ELSE IF DryRunStops
    THEN /\ dt' = [dt EXCEPT ![i] = "returned"]
         /\ ret' = [ret EXCEPT ![i] = "success"]
         /\ UNCHANGED tracks
    ELSE /\ tracks' = [tracks EXCEPT ![i].status = "downloading"]
         /\ dt' = [dt EXCEPT ![i] = "retrieve"]
         /\ UNCHANGED ret

\* search_track after the status write: self._log (outside any handler, so a
\* raising log callback propagates), then the search and what download_track
\* does with its result
search_track(i) ==
    /\ dt[i] = "search"
    /\ \E logRaises \in BOOLEAN, outcome \in {"none", "url", "nourl"} :
         IF logRaises
         THEN /\ dt' = [dt EXCEPT ![i] = "raised"]
              /\ UNCHANGED <<tracks, ret, calls>>
         ELSE /\ calls' = [calls EXCEPT ![i].search = @ + 1]
              /\ IF outcome = "none"
                 THEN /\ tracks' = [tracks EXCEPT ![i].status = "error",
                                                  ![i].error = "msg"]
                      /\ ret' = [ret EXCEPT ![i] = "failure"]
                      /\ dt' = [dt EXCEPT ![i] = "returned"]
                 ELSE /\ tracks' = [tracks EXCEPT
                                      ![i].url = IF outcome = "url" THEN "u" ELSE "",
                                      ![i].status = "found"]
                      /\ dt' = [dt EXCEPT ![i] = "found"]
                      /\ UNCHANGED ret
    /\ UNCHANGED <<workers, args, result, config, is_running, entry, dry_run, main, idx, max_workers,
                   lock, completed_count, progress, results, cancelled,
                   in_flight_at_stop>>

\* after FOUND: the dry-run return (with its log line) or the DOWNLOADING write
found_step(i) ==
    /\ dt[i] = "found"
    /\ IF DryRunStops
       THEN \E logRaises \in BOOLEAN :
              IF logRaises
              THEN /\ dt' = [dt EXCEPT ![i] = "raised"]
                   /\ UNCHANGED <<tracks, ret>>
              ELSE /\ dt' = [dt EXCEPT ![i] = "returned"]
                   /\ ret' = [ret EXCEPT ![i] = "success"]
                   /\ UNCHANGED tracks
       ELSE /\ tracks' = [tracks EXCEPT ![i].status = "downloading"]
            /\ dt' = [dt EXCEPT ![i] = "retrieve"]
            /\ UNCHANGED ret
    /\ UNCHANGED <<workers, args, result, config, is_running, entry, dry_run, main, idx, max_workers,
                   lock, completed_count, progress, results, cancelled,
                   in_flight_at_stop, calls>>

\* the try block of download_track up to the status write: log line,
\* extract_info(download=True), locating the file
retrieve(i) ==
    /\ dt[i] = "retrieve"
    /\ \E outcome \in {"lograise", "fail", "ok"} :
         \* extract_info needs a url to fetch; "" is not one
         /\ outcome = "ok" => tracks[i].url = "u"
         /\ calls' = IF outcome = "lograise" THEN calls
                     ELSE [calls EXCEPT ![i].retrieve = @ + 1]
         /\ IF outcome = "ok"
            THEN /\ tracks' = [tracks EXCEPT ![i].result_path = "path",
                                             ![i].status = "done"]
                 /\ dt' = [dt EXCEPT ![i] = "oklog"]
            ELSE /\ tracks' = [tracks EXCEPT ![i].status = "error",
                                             ![i].error = "msg"]
                 /\ dt' = [dt EXCEPT ![i] = "errlog"]
    /\ UNCHANGED <<workers, args, result, config, is_running, entry, dry_run, main, idx, max_workers,
                   ret, lock, completed_count, progress, results, cancelled,
                   in_flight_at_stop>>

\* rest of the try block after status = DONE: the "[success]" log line is
\* still inside the try, so a raising callback lands in `except Exception`
success_log(i) ==
    /\ dt[i] = "oklog"
    /\ \E logRaises \in BOOLEAN :
         IF logRaises
         THEN /\ tracks' = [tracks EXCEPT ![i].status = "error",
                                          ![i].error = "msg"]
              /\ dt' = [dt EXCEPT ![i] = "errlog"]
              /\ UNCHANGED ret
         ELSE /\ dt' = [dt EXCEPT ![i] = "returned"]
              /\ ret' = [ret EXCEPT ![i] = "success"]
              /\ UNCHANGED tracks
    /\ UNCHANGED <<workers, args, result, config, is_running, entry, dry_run, main, idx, max_workers,
                   lock, completed_count, progress, results, cancelled,
                   in_flight_at_stop, calls>>

\* an except handler of download_track after its status/error writes: the
\* "[error]" log line, then the failure result
error_log(i) ==
    /\ dt[i] = "errlog"
    /\ \E logRaises \in BOOLEAN :
         IF logRaises
         THEN /\ dt' = [dt EXCEPT ![i] = "raised"]
              /\ UNCHANGED ret
         ELSE /\ dt' = [dt EXCEPT ![i] = "returned"]
              /\ ret' = [ret EXCEPT ![i] = "failure"]
    /\ UNCHANGED <<workers, args, result, tracks, config, is_running, entry, dry_run, main, idx,
                   max_workers, lock, completed_count, progress, results,
                   cancelled, in_flight_at_stop, calls>>

\* ------------------------------------------------------------------------
\* download_multiple (core/downloader.py): the sequential batch call
\* ------------------------------------------------------------------------

download_multiple(d) ==
    /\ main = "idle"
    /\ entry' = "download_multiple"
    /\ dry_run' = d
    /\ main' = "seq"
    /\ UNCHANGED <<workers, args, result, tracks, config, is_running, idx, max_workers, dt, ret, lock,
                   completed_count, progress, results, cancelled,
                   in_flight_at_stop, calls>>

\* loop head: call download_track on the next track
dm_next ==
    /\ main = "seq" /\ entry = "download_multiple"
    /\ idx <= N /\ dt[idx] = "idle"
    /\ BeginTrack(idx)
    /\ UNCHANGED <<workers, args, result, config, is_running, entry, dry_run, main, idx, max_workers,
                   lock, completed_count, progress, results, cancelled,
                   in_flight_at_stop, calls>>

\* download_track returned: results.append(result); progress_callback(i + 1, ...)
dm_append ==
    /\ main = "seq" /\ entry = "download_multiple"
    /\ idx <= N /\ dt[idx] = "returned"
    /\ results' = Append(results, [of |-> idx, success |-> ret[idx] = "success"])
    /\ progress' = Append(progress, <<idx, N, idx>>)
    /\ dt' = [dt EXCEPT ![idx] = "finished"]
    /\ idx' = idx + 1
    /\ main' = IF idx = N THEN "returned" ELSE "seq"
    /\ UNCHANGED <<workers, args, result, tracks, config, is_running, entry, dry_run, max_workers,
                   ret, lock, completed_count, cancelled, in_flight_at_stop,
                   calls>>

\* download_track raised: nothing in download_multiple catches it
dm_raise ==
    /\ main = "seq" /\ entry = "download_multiple"
    /\ idx <= N /\ dt[idx] = "raised"
    /\ main' = "raised"
    /\ UNCHANGED <<workers, args, result, tracks, config, is_running, entry, dry_run, idx,
                   max_workers, dt, ret, lock, completed_count, progress,
                   results, cancelled, in_flight_at_stop, calls>>

\* ------------------------------------------------------------------------
\* download_multiple_concurrent (core/downloader.py)
\* ------------------------------------------------------------------------

download_multiple_concurrent(d, mw) ==
    /\ main = "idle"
    /\ entry' = "download_multiple_concurrent"
    /\ dry_run' = d
    /\ max_workers' = mw
    /\ main' = "clamp"
    /\ UNCHANGED <<workers, args, result, tracks, config, is_running, idx, dt, ret, lock,
                   completed_count, progress, results, cancelled,
                   in_flight_at_stop, calls>>

\* the prologue without its `elif max_workers > 5` branch
ClampNoCap(k) == IF k < 1 THEN 1 ELSE k

\* `if max_workers < 1: max_workers = 1 elif max_workers > 5: max_workers = 5`
Clamp(k) == IF k < 1 THEN 1 ELSE IF k > 5 THEN 5 ELSE k

\* the worker-count prologue, then ThreadPoolExecutor(max_workers=max_workers)
clamp_workers ==
    /\ main = "clamp"
    /\ max_workers' = Some(Clamp(IF max_workers = None THEN config
                                 ELSE max_workers[1]))
    /\ main' = "submit"
    /\ idx' = 1
    /\ UNCHANGED <<workers, args, result, tracks, config, is_running, entry, dry_run, dt, ret, lock,
                   completed_count, progress, results, cancelled,
                   in_flight_at_stop, calls>>

\* one executor.submit(download_with_callback, track) of the comprehension
submit ==
    /\ main = "submit"
    /\ dt' = [dt EXCEPT ![idx] = "queued"]
    /\ idx' = idx + 1
    /\ main' = IF idx = N THEN "collect" ELSE "submit"
    /\ UNCHANGED <<workers, args, result, tracks, config, is_running, entry, dry_run, max_workers,
                   ret, lock, completed_count, progress, results, cancelled,
                   in_flight_at_stop, calls>>

\* positions at which a pool thread is occupied by an item
Running == {"search", "found", "retrieve", "oklog", "errlog", "returned", "locked"}

InFlight == Cardinality({i \in Items : dt[i] \in Running})

\* an executor that never runs more than one thread
WorkerFreeSingle == InFlight < 1

\* the executor starts a thread only while fewer than max_workers exist
WorkerFree == InFlight < max_workers[1]

\* a pool thread takes the oldest queued work item and enters download_track
worker_start(i) ==
    /\ main \in {"submit", "collect", "shutdown"}
    /\ dt[i] = "queued"
    /\ \A j \in 1..(i - 1) : dt[j] # "queued"
    /\ WorkerFree
    /\ BeginTrack(i)
    /\ UNCHANGED <<workers, args, result, config, is_running, entry, dry_run, main, idx, max_workers,
                   lock, completed_count, progress, results, cancelled,
                   in_flight_at_stop, calls>>

\* `with lock:` can be entered
LockFree == lock = 0

\* download_with_callback: `with lock: completed_count += 1`
worker_lock(i) ==
    /\ main \in {"submit", "collect", "shutdown"}
    /\ dt[i] = "returned"
    /\ LockFree
    /\ lock' = i
    /\ completed_count' = completed_count + 1
    /\ dt' = [dt EXCEPT ![i] = "locked"]
    /\ UNCHANGED <<workers, args, result, tracks, config, is_running, entry, dry_run, main, idx,
                   max_workers, ret, progress, results, cancelled,
                   in_flight_at_stop, calls>>

\* still under the lock: progress_callback(completed_count, len(tracks), track),
\* then the lock is released and the future completes with the result
worker_callback(i) ==
    /\ dt[i] = "locked"
    /\ progress' = Append(progress, <<completed_count, N, i>>)
    /\ lock' = IF lock = i THEN 0 ELSE lock
    /\ dt' = [dt EXCEPT ![i] = "finished"]
    /\ UNCHANGED <<workers, args, result, tracks, config, is_running, entry, dry_run, main, idx,
                   max_workers, ret, completed_count, results, cancelled,
                   in_flight_at_stop, calls>>

\* a handler that sets the status and leaves the error field as it is
KeepError(error) == error

\* `track.error = str(e)` of an `except Exception as e` handler: the text of
\* the exception, which is a str (possibly empty), never None
StrOfException(error) == "str(e)"

\* the future of item i is done (with a result or with an exception)
FutureDone(i) == dt[i] \in {"finished", "raised"}

\* one iteration of `for future in as_completed(...)`.  track_results[track]
\* needs hash(track): with a result the insert raises TypeError inside the
\* try; with an exception future.result() raises.  Either way the handler
\* sets status and error and its own insert raises TypeError again, which
\* leaves the loop.
as_completed(i) ==
    /\ main = "collect"
    /\ FutureDone(i)
    /\ ~TrackItemHashable
    /\ tracks' = [tracks EXCEPT ![i].status = "error",
                                ![i].error = StrOfException(@)]
    /\ main' = "shutdown"
    /\ UNCHANGED <<workers, args, result, config, is_running, entry, dry_run, idx, max_workers, dt,
                   ret, lock, completed_count, progress, results, cancelled,
                   in_flight_at_stop, calls>>

\* an executor exit that does not wait for its threads (shutdown(wait=False))
PoolNotJoined == TRUE

\* shutdown(wait=True): every submitted future has run to its end
PoolJoined == \A i \in Items : FutureDone(i)

\* leaving `with ThreadPoolExecutor`: shutdown(wait=True) joins the pool, then
\* the TypeError propagates to the caller (_download_concurrent catches it)
executor_exit ==
    /\ main = "shutdown"
    /\ PoolJoined
    /\ main' = IF entry = "screen" THEN "completing" ELSE "raised"
    /\ UNCHANGED <<workers, args, result, tracks, config, is_running, entry, dry_run, idx,
                   max_workers, dt, ret, lock, completed_count, progress,
                   results, cancelled, in_flight_at_stop, calls>>

\* ------------------------------------------------------------------------
\* BaseDownloadScreen (ui/base_screen.py)
\* ------------------------------------------------------------------------

\* BaseDownloadScreen._start_downloads.  Its callers (url_app.py) hand it
\* items built by URLProcessor.create_track_from_url, with dry_run=False.
start_downloads ==
    /\ main = "idle"
    /\ ~is_running
    /\ \A i \in Items : tracks[i].url = "u"
    /\ is_running' = TRUE
    /\ entry' = "screen"
    /\ dry_run' = FALSE
    /\ main' = "worker"
    /\ UNCHANGED <<workers, args, result, tracks, config, idx, max_workers, dt, ret, lock,
                   completed_count, progress, results, cancelled,
                   in_flight_at_stop, calls>>

\* MusicDownloaderApp._start_downloads (ui/app.py): items come from
\* build_track_items (no url), d is self.dry_run_mode, and the thread it
\* starts runs the same sequential loop as _download_sequential
app_start_downloads(d) ==
    /\ main = "idle"
    /\ ~is_running
    /\ \A i \in Items : tracks[i].url = "None"
    /\ is_running' = TRUE
    /\ entry' = "app"
    /\ dry_run' = d
    /\ main' = "seq"
    /\ UNCHANGED <<workers, args, result, tracks, config, idx, max_workers, dt, ret, lock,
                   completed_count, progress, results, cancelled,
                   in_flight_at_stop, calls>>

\* the entry points whose batch runs behind the is_running flag
Screens == {"screen", "app"}

stop_downloads ==
    /\ entry \in Screens
    /\ is_running
    /\ is_running' = FALSE
    /\ cancelled' = TRUE
    /\ in_flight_at_stop' = {i \in Items : dt[i] \in Running}
    /\ UNCHANGED <<workers, args, result, tracks, config, entry, dry_run, main, idx, max_workers, dt,
                   ret, lock, completed_count, progress, results, calls>>

\* _download_worker: choose the method; the concurrent one is called with
\* max_workers=self.config.max_concurrent_downloads
download_worker ==
    /\ main = "worker"
    /\ IF config > 1 /\ N > 1
       THEN /\ main' = "clamp"
            /\ max_workers' = Some(config)
       ELSE /\ main' = "seq"
            /\ UNCHANGED max_workers
    /\ UNCHANGED <<workers, args, result, tracks, config, is_running, entry, dry_run, idx, dt, ret,
                   lock, completed_count, progress, results, cancelled,
                   in_flight_at_stop, calls>>

\* _download_sequential loop head: end of list, the is_running test, or
\* _process_single_track -> download_track
sequential_next ==
    /\ main = "seq" /\ entry \in Screens
    /\ IF idx > N
       THEN /\ main' = "completing"
            /\ UNCHANGED <<tracks, dt, ret>>
       ELSE /\ dt[idx] = "idle"
            /\ IF ~is_running
               THEN /\ main' = "completing"
                    /\ UNCHANGED <<tracks, dt, ret>>
               ELSE /\ BeginTrack(idx)
                    /\ UNCHANGED main
    /\ UNCHANGED <<workers, args, result, config, is_running, entry, dry_run, idx, max_workers, lock,
                   completed_count, progress, results, cancelled,
                   in_flight_at_stop, calls>>

\* _process_single_track: download_track returned, the result is logged
process_done ==
    /\ main = "seq" /\ entry \in Screens
    /\ idx <= N /\ dt[idx] = "returned"
    /\ dt' = [dt EXCEPT ![idx] = "finished"]
    /\ idx' = idx + 1
    /\ UNCHANGED <<workers, args, result, tracks, config, is_running, entry, dry_run, main,
                   max_workers, ret, lock, completed_count, progress, results,
                   cancelled, in_flight_at_stop, calls>>

\* _process_single_track: `except Exception` sets status and error
process_catch ==
    /\ main = "seq" /\ entry \in Screens
    /\ idx <= N /\ dt[idx] = "raised"
    /\ tracks' = [tracks EXCEPT ![idx].status = "error",
                                ![idx].error = StrOfException(@)]
    /\ dt' = [dt EXCEPT ![idx] = "caught"]
    /\ idx' = idx + 1
    /\ UNCHANGED <<workers, args, result, config, is_running, entry, dry_run, main, max_workers, ret,
                   lock, completed_count, progress, results, cancelled,
                   in_flight_at_stop, calls>>

\* _download_complete, run on the UI thread
download_complete ==
    /\ main = "completing"
    /\ is_running' = FALSE
    /\ main' = "complete"
    /\ UNCHANGED <<workers, args, result, tracks, config, entry, dry_run, idx, max_workers, dt, ret,
                   lock, completed_count, progress, results, cancelled,
                   in_flight_at_stop, calls>>

\* ------------------------------------------------------------------------
\* Specification
\* ------------------------------------------------------------------------

Next ==
    \/ \E d \in BOOLEAN : download_multiple(d)
    \/ \E d \in BOOLEAN, mw \in RequestedWorkers : download_multiple_concurrent(d, mw)
    \/ start_downloads
    \/ \E d \in BOOLEAN : app_start_downloads(d)
    \/ stop_downloads
    \/ download_worker
    \/ dm_next
    \/ dm_append
    \/ dm_raise
    \/ clamp_workers
    \/ submit
    \/ \E i \in Items : worker_start(i)
    \/ \E i \in Items : worker_lock(i)
    \/ \E i \in Items : worker_callback(i)
    \/ \E i \in Items : as_completed(i)
    \/ executor_exit
    \/ sequential_next
    \/ process_done
    \/ process_catch
    \/ download_complete
    \/ \E i \in Items : search_track(i)
    \/ \E i \in Items : found_step(i)
    \/ \E i \in Items : retrieve(i)
    \/ \E i \in Items : success_log(i)
    \/ \E i \in Items : error_log(i)

Spec == Init /\ [][Next]_vars

\* ------------------------------------------------------------------------
\* Properties
\* ------------------------------------------------------------------------

\* the batch thread has left the batch call
BatchOver == main \in {"returned", "raised", "complete"}

\* the batch runs in the pool of download_multiple_concurrent
Pooled == main \in {"submit", "collect", "shutdown"}

\* C1: download_multiple_concurrent returns a list with exactly one outcome
\* per submitted item, the i-th outcome being the one produced for the i-th
\* item, whatever the completion order and whether or not items fail.
C1_OrderedResults ==
    (entry = "download_multiple_concurrent" /\ BatchOver) =>
        /\ main = "returned"
        /\ Len(results) = N
        /\ \A i \in Items : /\ results[i].of = i
                             /\ results[i].success = (ret[i] = "success")

\* C2: whatever worker count is requested (or configured, when none is
\* requested), the pool is created with max(1, min(5, requested)) workers and
\* never more than that many items are being processed at once.
C2_WorkerBound ==
    /\ [][(main = "clamp" /\ main' = "submit") =>
             max_workers' = Some(Max(1, Min(5, IF max_workers = None
                                                THEN config
                                                ELSE max_workers[1])))]_vars
    /\ [](Pooled => (InFlight <= max_workers[1] /\ max_workers[1] \in 1..5))

\* a pool of one worker, asked for against a configuration of 2, is busy
\* with one item while another one waits in the queue
C2_Witness ==
    /\ entry = "download_multiple_concurrent"
    /\ main = "collect"
    /\ config = 2
    /\ max_workers = Some(1)
    /\ InFlight = 1
    /\ \E i \in Items : dt[i] = "queued"

\* item i has not entered download_track
Unstarted(i) == dt[i] \in {"idle", "queued"}

\* download_track raised for item i
Raised(i) == dt[i] \in {"raised", "caught"}

\* item i has a completed or failed outcome
Settled(i) ==
    \/ tracks[i].status \in {"done", "error"}
    \/ dry_run /\ tracks[i].status = "found"

\* C3: once cancellation has been requested, no item that has not started
\* processing is started afterwards, in sequential and in parallel mode.
C3_NoStartAfterCancel ==
    [][cancelled => \A i \in Items : Unstarted(i) => Unstarted(i)']_vars

\* C4: an item already in flight when cancellation is requested is never
\* interrupted: the stop request touches no item, and when the cancelled
\* batch is over every item that was started is Done or Error (or Found in
\* dry-run), never Searching or Downloading.
C4_InFlightCompletes ==
    /\ [][(cancelled' /\ ~cancelled) =>
             (tracks' = tracks /\ dt' = dt /\ ret' = ret)]_vars
    /\ [](\A i \in in_flight_at_stop : ~Unstarted(i))
    /\ []((cancelled /\ main = "complete") =>
             \A i \in Items : ~Unstarted(i) => Settled(i))

\* a cancelled batch is over: the item that was in flight at the stop request
\* has its outcome, the other item was never started
C4_Witness ==
    /\ cancelled /\ main = "complete"
    /\ \E i \in in_flight_at_stop, j \in Items :
          /\ tracks[i].status \in {"done", "error", "found"}
          /\ Unstarted(j)

\* C5: when processing one item raises, that item alone ends in Error, the
\* other items are still processed, and the batch call does not raise.
C5_FailureIsolation ==
    (\E i \in Items : Raised(i)) =>
        /\ main # "raised"
        /\ (BatchOver /\ ~cancelled) =>
              \A j \in Items : IF Raised(j) THEN tracks[j].status = "error"
                                ELSE dt[j] = "finished"

\* C6: a batch that is not cancelled ends by returning one outcome per
\* submitted item, every item having left Pending, Searching and Downloading.
C6_BatchCompletes ==
    (BatchOver /\ ~cancelled) =>
        /\ main # "raised"
        /\ entry \notin Screens => Len(results) = N
        /\ \A i \in Items : Settled(i)

\* the transitions of the item state machine
Transitions ==
    {<<"pending", "searching">>, <<"searching", "found">>,
     <<"searching", "error">>, <<"found", "downloading">>,
     <<"downloading", "done">>, <<"downloading", "error">>}
    \cup ({"pending", "searching", "found", "downloading"} \X {"error", "skipped"})

\* C7: every status change is a transition of the state machine; in
\* particular Downloading is entered from Found only.
C7_Transitions ==
    [][\A i \in Items :
         tracks'[i].status # tracks[i].status =>
             <<tracks[i].status, tracks'[i].status>> \in Transitions]_vars

\* C8: a status of Done, Error or Skipped is never changed again.
C8_TerminalStable ==
    [][\A i \in Items :
         tracks[i].status \in {"done", "error", "skipped"} =>
             tracks'[i].status = tracks[i].status]_vars

\* the search of item i has returned a result / has returned none
SearchSucceeded(i) == calls[i].search = 1 /\ tracks[i].url # "None"
SearchFailed(i) == calls[i].search = 1 /\ tracks[i].url = "None"

\* C9: in dry-run mode retrieval is never invoked and no item is ever
\* Downloading or Done; download_track returns success with the item at
\* Found when its search succeeded, and failure with the item at Error when
\* its search failed.
C9_DryRun ==
    dry_run =>
        \A i \in Items :
            /\ tracks[i].status \notin {"downloading", "done"}
            /\ calls[i].retrieve = 0
            /\ (dt[i] = "returned" /\ SearchSucceeded(i)) =>
                   (tracks[i].status = "found" /\ ret[i] = "success")
            /\ (dt[i] = "returned" /\ SearchFailed(i)) =>
                   (tracks[i].status = "error" /\ ret[i] = "failure")

\* a dry-run batch in which one search failed and another one succeeded
C9_Witness ==
    /\ dry_run
    /\ \E i, j \in Items :
          /\ SearchFailed(i) /\ tracks[i].status = "error" /\ ret[i] = "failure"
          /\ dt[j] = "returned" /\ SearchSucceeded(j)
          /\ tracks[j].status = "found" /\ ret[j] = "success"

\* C10: the progress callback fires exactly once per item, after the item
\* has finished, with (number finished so far, batch size, item); over a
\* batch of N items the counts are 1, 2, ..., N in order of invocation.
C10_ProgressCounts ==
    /\ \A k \in 1..Len(progress) :
          /\ progress[k][1] = k
          /\ progress[k][2] = N
          /\ ~Unstarted(progress[k][3])
    /\ (BatchOver /\ entry \in {"download_multiple", "download_multiple_concurrent"}) =>
          /\ Len(progress) = N
          /\ \A i \in Items : \E k \in 1..N : progress[k][3] = i

TypeOK ==
    /\ \A i \in Items : tracks[i].status \in TrackStatus
    /\ lock \in 0..N
    /\ completed_count \in 0..N

\* ========================================================================
\* Parsers: core/csv_parser.py, core/url_processor.py
\* ========================================================================

\* ------------------------------------------------------------------------
\* Bounds of the parser inputs
\* ------------------------------------------------------------------------

\* longest header list handed to column detection
MaxHeaders == 2

\* most preview rows handed to column detection
MaxRows == 2

\* ------------------------------------------------------------------------
\* Python str: a sequence of characters.  A character is a one-letter
\* string; the three non-ASCII characters of SEPARATORS are named by their
\* code point.
\* ------------------------------------------------------------------------

Chars(s) == [i \in 1..Len(s) |-> SubSeq(s, i, i)]

EmDash == "U+2014"
EnDash == "U+2013"
MiddleDot == "U+00B7"

\* str.strip() without argument removes whitespace
Whitespace == {" ", "\t", "\n", "\r"}

\* characters matched by \w
WordChars ==
    {Chars("abcdefghijklmnopqrstuvwxyzABCDEFGHIJKLMNOPQRSTUVWXYZ0123456789_")[i] :
        i \in 1..63}

\* the lower-case letter of each upper-case letter
LowerCase ==
    [c \in {Chars("ABCDEFGHIJKLMNOPQRSTUVWXYZ")[k] : k \in 1..26} |->
        Chars("abcdefghijklmnopqrstuvwxyz")[
            CHOOSE k \in 1..26 : Chars("ABCDEFGHIJKLMNOPQRSTUVWXYZ")[k] = c]]

\* str.lower(), one character
LowerChar(c) == IF c \in DOMAIN LowerCase THEN LowerCase[c] ELSE c

\* str.lower()
Lower(s) == [i \in 1..Len(s) |-> LowerChar(s[i])]

\* t in s
Contains(s, t) ==
    \E i \in 1..(Len(s) - Len(t) + 1) : SubSeq(s, i, i + Len(t) - 1) = t

\* str.strip(chars)
RECURSIVE LStripChars(_, _)
LStripChars(s, chars) ==
    IF Len(s) > 0 /\ s[1] \in chars
    THEN LStripChars(SubSeq(s, 2, Len(s)), chars)
    ELSE s

RECURSIVE RStripChars(_, _)
RStripChars(s, chars) ==
    IF Len(s) > 0 /\ s[Len(s)] \in chars
    THEN RStripChars(SubSeq(s, 1, Len(s) - 1), chars)
    ELSE s

StripChars(s, chars) == RStripChars(LStripChars(s, chars), chars)

\* str.strip()
Strip(s) == StripChars(s, Whitespace)

\* re.search(r"\bw\b", s) for a word w made of \w characters
WordBounded(s, w) ==
    \E i \in 1..(Len(s) - Len(w) + 1) :
        /\ SubSeq(s, i, i + Len(w) - 1) = w
        /\ (i = 1 \/ s[i - 1] \notin WordChars)
        /\ (i + Len(w) > Len(s) \/ s[i + Len(w)] \notin WordChars)

\* an Optional[str] in a condition: None and "" are both false
Truthy(opt) == opt # None /\ opt[1] # <<>>

\* dict.get(key, "")
Get(row, key) == IF key \in DOMAIN row THEN row[key] ELSE <<>>

\* ------------------------------------------------------------------------
\* core/csv_parser.py: constants
\* ------------------------------------------------------------------------

ARTIST_SYNONYMS ==
    { Chars("artist"), Chars("artists"), Chars("primary artist"),
      Chars("main artist"), Chars("lead artist"), Chars("performer"),
      Chars("band"), Chars("singer"), Chars("vocalist"), Chars("composer"),
      Chars("author"), Chars("musician"), Chars("artist name"),
      Chars("album artist"), Chars("primary"), Chars("group") }

TRACK_SYNONYMS ==
    { Chars("track"), Chars("track name"), Chars("song"), Chars("song name"),
      Chars("title"), Chars("recording"), Chars("work"), Chars("composition"),
      Chars("piece"), Chars("single"), Chars("name") }

SEPARATORS ==
    << <<" ", "-", " ">>, <<" ", EmDash, " ">>, <<" ", EnDash, " ">>,
       <<"-">>, <<EmDash>>, <<EnDash>>, <<":">>, <<"|">>, <<MiddleDot>> >>

\* any(sep in value for sep in SEPARATORS)
HasSeparator(value) ==
    \E k \in 1..Len(SEPARATORS) : Contains(value, SEPARATORS[k])

\* ------------------------------------------------------------------------
\* CSVParser._detect_single_column
\* ------------------------------------------------------------------------

\* separator_count >= len(rows) * 0.3, with this mistaken for a strict bound
MeetsThresholdStrict(separator_count, n) == 10 * separator_count > 3 * n

\* separator_count >= len(rows) * 0.3; the float product n * 0.3 equals
\* 3n/10 whenever that is an integer (checked for n up to 259), so the
\* comparison with an integer count is the exact one
MeetsThreshold(separator_count, n) == 10 * separator_count >= 3 * n

\* the loop over headers, from position i on
RECURSIVE single_scan(_, _, _, _, _)
single_scan(headers, rows, i, best_column, best_separator_count) ==
    IF i > Len(headers)
    THEN best_column
    ELSE LET header == headers[i]
             separator_count ==
                 Cardinality({r \in 1..Len(rows) :
                                 HasSeparator(Get(rows[r], header))})
         IN  IF /\ separator_count > best_separator_count
                /\ MeetsThreshold(separator_count, Len(rows))
             THEN single_scan(headers, rows, i + 1, Some(header),
                              separator_count)
             ELSE single_scan(headers, rows, i + 1, best_column,
                              best_separator_count)

detect_single_column(headers, rows) == single_scan(headers, rows, 1, None, 0)

\* ------------------------------------------------------------------------
\* CSVParser._detect_columns
\* ------------------------------------------------------------------------

\* sum over the synonyms that occur in the name
RECURSIVE partial_matches(_, _)
partial_matches(name_lower, synonyms) ==
    IF synonyms = {}
    THEN 0
    ELSE LET synonym == CHOOSE x \in synonyms : TRUE
         IN  (IF Contains(name_lower, synonym)
              THEN Max(1, Len(synonym) \div 3)
              ELSE 0)
             + partial_matches(name_lower, synonyms \ {synonym})

score_header(name, synonyms) ==
    LET name_lower == Lower(Strip(name))
    IN    (IF name_lower \in synonyms THEN 10 ELSE 0)
        + partial_matches(name_lower, synonyms)
        + (IF WordBounded(name_lower, Chars("artist")) THEN 3 ELSE 0)
        + (IF \/ WordBounded(name_lower, Chars("title"))
              \/ WordBounded(name_lower, Chars("track"))
              \/ WordBounded(name_lower, Chars("song"))
           THEN 3 ELSE 0)

\* header names of the tables analysed here
HeaderNames ==
    { Chars("Artist"), Chars("Title"), Chars("Name"), Chars("Performer"),
      Chars("Song Artist"), Chars("Notes"), Chars("Group Name"),
      Chars(" TITLE "), Chars("Year") }

\* header_scores[header] = (artist_score, track_score): score_header
\* tabulated for HeaderNames
header_scores ==
    [header \in HeaderNames |->
        [artist |-> score_header(header, ARTIST_SYNONYMS),
         track |-> score_header(header, TRACK_SYNONYMS)]]

\* "score > best" with the tie going to the later header
BetterOrEqual(score, best) == score >= best

\* the comparison that replaces the best column so far
Better(score, best) == score > best

\* the first loop over headers for one role, from position i on
RECURSIVE best_scan(_, _, _, _, _)
best_scan(headers, role, i, best_col, best_score) ==
    IF i > Len(headers)
    THEN [col |-> best_col, score |-> best_score]
    ELSE LET header == headers[i]
             score == score_header(header, IF role = "artist"
                                           THEN ARTIST_SYNONYMS
                                           ELSE TRACK_SYNONYMS)
         IN  IF Better(score, best_score)
             THEN best_scan(headers, role, i + 1, Some(header), score)
             ELSE best_scan(headers, role, i + 1, best_col, best_score)

\* the second loop: best track score among the headers other than the winner
RECURSIVE second_scan(_, _, _, _, _)
second_scan(headers, best_artist_col, i, second_best_track, second_best_score) ==
    IF i > Len(headers)
    THEN [col |-> second_best_track, score |-> second_best_score]
    ELSE LET header == headers[i]
             track_score == score_header(header, TRACK_SYNONYMS)
         IN  IF Some(header) # best_artist_col /\ Better(track_score, second_best_score)
             THEN second_scan(headers, best_artist_col, i + 1, Some(header),
                              track_score)
             ELSE second_scan(headers, best_artist_col, i + 1,
                              second_best_track, second_best_score)

\* the result tuple (artist_col, track_col, single_col)
Columns(a, t, s) == [artist_col |-> a, track_col |-> t, single_col |-> s]

\* "prefer track column", with the wrong role dropped
KeepArtistOnly(best_artist_col, best_track_col) ==
    Columns(best_artist_col, None, None)

\* no good alternative: best_artist_col = None, the track column is kept
KeepTrackOnly(best_artist_col, best_track_col) ==
    Columns(None, best_track_col, None)

detect_columns(headers, rows) ==
    LET a == best_scan(headers, "artist", 1, None, -1)
        t == best_scan(headers, "track", 1, None, -1)
        low == a.score <= 2 \/ t.score <= 2
        single_col == IF low THEN detect_single_column(headers, rows) ELSE None
    IN  IF low /\ Truthy(single_col)
        THEN Columns(None, None, single_col)
        ELSE IF a.col = t.col
        THEN LET s == second_scan(headers, a.col, 1, None, -1)
             IN  IF Truthy(s.col) /\ s.score > 0
                 THEN Columns(a.col, s.col, None)
                 ELSE KeepTrackOnly(a.col, t.col)
        ELSE Columns(a.col, t.col, None)

\* ------------------------------------------------------------------------
\* Column detection applied to header lists and preview rows
\* ------------------------------------------------------------------------

\* the orchestrator has no batch while a table is analysed
NoBatch ==
    /\ tracks = <<>>
    /\ config = 1
    /\ is_running = FALSE
    /\ entry = "none"
    /\ dry_run = FALSE
    /\ main = "idle"
    /\ idx = 1
    /\ max_workers = None
    /\ dt = <<>>
    /\ ret = <<>>
    /\ lock = 0
    /\ completed_count = 0
    /\ progress = <<>>
    /\ results = <<>>
    /\ cancelled = FALSE
    /\ in_flight_at_stop = {}
    /\ calls = <<>>
    /\ workers = <<>>

\* n rows in which the first k[h] cells of column h hold "a<separator>b",
\* the separator changing from row to row, and the others hold "ab"
RowsWithCounts(n, k) ==
    [r \in 1..n |->
        [h \in DOMAIN k |->
            IF r <= k[h]
            THEN <<"a">> \o SEPARATORS[((r - 1) % Len(SEPARATORS)) + 1] \o <<"b">>
            ELSE Chars("ab")]]

\* load_csv hands over at least one header and one row; a row maps each
\* header name to a cell; every count of separator rows per column
DetectInit ==
    /\ NoBatch
    /\ \E m \in 1..MaxHeaders, n \in 1..MaxRows :
           \E hs \in [1..m -> HeaderNames] :
               \E k \in [{hs[i] : i \in 1..m} -> 0..n] :
                   args = [headers |-> hs, rows |-> RowsWithCounts(n, k)]
    /\ result = <<>>

apply_detect_columns ==
    /\ result = <<>>
    /\ result' = <<detect_columns(args.headers, args.rows)>>
    /\ UNCHANGED <<args, dvars>>

DetectSpec == DetectInit /\ [][apply_detect_columns]_vars

\* ------------------------------------------------------------------------
\* Properties of column detection (DetectSpec)
\* ------------------------------------------------------------------------

Detected == result # <<>>

\* the (artist_col, track_col, single_col) returned, once detection has run
Detection == result[1]

\* highest score of a role over the header list
BestScore(headers, role) ==
    CHOOSE m \in {header_scores[headers[i]][role] : i \in 1..Len(headers)} :
        \A j \in 1..Len(headers) : header_scores[headers[j]][role] <= m

\* position of the first header that reaches the highest score of a role
\* among the positions in among
FirstBest(headers, role, among) ==
    CHOOSE i \in among :
        /\ \A j \in among : header_scores[headers[j]][role]
                                <= header_scores[headers[i]][role]
        /\ \A j \in among : j < i => header_scores[headers[j]][role]
                                       < header_scores[headers[i]][role]

\* C11 as stated: a detection result has both the artist and the track
\* column and no single column, or only the single column, or no column at
\* all; in particular never exactly one of artist and track.
C11_OneModeOrNone ==
    Detected =>
        \/ /\ Detection.artist_col # None
           /\ Detection.track_col # None
           /\ Detection.single_col = None
        \/ /\ Detection.artist_col = None
           /\ Detection.track_col = None
           /\ Detection.single_col # None
        \/ /\ Detection.artist_col = None
           /\ Detection.track_col = None
           /\ Detection.single_col = None

\* C11 as amended: a detection result has both the artist and the track
\* column and no single column, or only the track column, or only the single
\* column, or no column at all; never a single column together with an
\* artist or track column, never an artist column without a track column.
C11_OneModeOrTrackOnly ==
    Detected =>
        /\ \/ /\ Detection.artist_col # None
              /\ Detection.track_col # None
              /\ Detection.single_col = None
           \/ /\ Detection.artist_col = None
              /\ Detection.track_col # None
              /\ Detection.single_col = None
           \/ /\ Detection.artist_col = None
              /\ Detection.track_col = None
              /\ Detection.single_col # None
           \/ /\ Detection.artist_col = None
              /\ Detection.track_col = None
              /\ Detection.single_col = None
        /\ Detection.single_col # None =>
               Detection.artist_col = None /\ Detection.track_col = None
        /\ Detection.artist_col # None => Detection.track_col # None

\* a table whose only header, "Artist", wins both roles: the artist role is
\* dropped and the header is kept as track column
C11_Witness ==
    /\ Detected
    /\ args.headers = <<Chars("Artist")>>
    /\ Detection = Columns(None, Some(Chars("Artist")), None)

\* C12: when the best artist score or the best track score is at most 2,
\* the result has neither an artist nor a track column; it has the single
\* column that single-column detection selects, and no column at all when
\* that detection selects none.
C12_LowScoresAbandonSeparate ==
    Detected =>
        (   (\/ BestScore(args.headers, "artist") <= 2
             \/ BestScore(args.headers, "track") <= 2)
         => /\ Detection.artist_col = None
            /\ Detection.track_col = None
            /\ Detection.single_col
                   = detect_single_column(args.headers, args.rows))

MaxSingleRows == 10

\* str(n)
RECURSIVE Decimal(_)
Decimal(n) ==
    IF n < 10
    THEN <<Chars("0123456789")[n + 1]>>
    ELSE Decimal(n \div 10) \o <<Chars("0123456789")[(n % 10) + 1]>>

\* f"col_{i + 1}": the header synthesized for column i of a headerless table
SyntheticHeader(i) == Chars("col_") \o Decimal(i)

\* 1 to MaxSingleRows preview rows under the synthesized headers, with
\* every count of separator rows per column
SingleInit ==
    /\ NoBatch
    /\ \E m \in 1..MaxHeaders, n \in 1..MaxSingleRows :
           \E k \in [{SyntheticHeader(i) : i \in 1..m} -> 0..n] :
               args = [headers |-> [i \in 1..m |-> SyntheticHeader(i)],
                       rows |-> RowsWithCounts(n, k)]
    /\ result = <<>>

apply_detect_single_column ==
    /\ result = <<>>
    /\ result' = <<detect_single_column(args.headers, args.rows)>>
    /\ UNCHANGED <<args, dvars>>

SingleSpec == SingleInit /\ [][apply_detect_single_column]_vars

\* number of preview rows whose cell under the header at position i
\* contains a separator
SeparatorRows(i) ==
    Cardinality({r \in 1..Len(args.rows) :
                    HasSeparator(Get(args.rows[r], args.headers[i]))})

\* positions of the headers whose count is positive and at least 30% of
\* the number of preview rows
Qualifying ==
    {i \in 1..Len(args.headers) :
        /\ SeparatorRows(i) > 0
        /\ 10 * SeparatorRows(i) >= 3 * Len(args.rows)}

\* C14: single-column detection selects none when no header has separators
\* in at least 30% of the preview rows, and otherwise the first of the
\* qualifying headers with the highest count; with 10 rows a header with 3
\* matching rows qualifies and one with 2 does not.
C14_SingleColumnThreshold ==
    result # <<>> =>
        /\ IF Qualifying = {}
           THEN result[1] = None
           ELSE \E i \in Qualifying :
                   /\ result[1] = Some(args.headers[i])
                   /\ \A j \in Qualifying : SeparatorRows(j) <= SeparatorRows(i)
                   /\ \A j \in Qualifying :
                          j < i => SeparatorRows(j) < SeparatorRows(i)
        /\ \A i \in 1..Len(args.headers) :
               Len(args.rows) = 10 =>
                   /\ SeparatorRows(i) = 3 => i \in Qualifying
                   /\ SeparatorRows(i) = 2 => i \notin Qualifying

\* ten rows, three of them with a separator in the only column, which is
\* selected
C14_Witness ==
    /\ result # <<>>
    /\ Len(args.rows) = 10
    /\ Len(args.headers) = 1
    /\ SeparatorRows(1) = 3
    /\ result[1] = Some(args.headers[1])

\* ------------------------------------------------------------------------
\* CSVParser.parse_artist_title_from_single
\* ------------------------------------------------------------------------

\* str.find(t) + 1: position of the first occurrence of t in s
Find(s, t) ==
    CHOOSE i \in 1..(Len(s) - Len(t) + 1) :
        /\ SubSeq(s, i, i + Len(t) - 1) = t
        /\ \A j \in 1..(i - 1) : SubSeq(s, j, j + Len(t) - 1) # t

\* value.rsplit(separator, 1) in place of value.split(separator, 1)
SplitOnceLast(value, separator) ==
    LET i == CHOOSE i \in 1..(Len(value) - Len(separator) + 1) :
                 /\ SubSeq(value, i, i + Len(separator) - 1) = separator
                 /\ \A j \in (i + 1)..(Len(value) - Len(separator) + 1) :
                        SubSeq(value, j, j + Len(separator) - 1) # separator
    IN  << Strip(SubSeq(value, 1, i - 1)),
           Strip(SubSeq(value, i + Len(separator), Len(value))) >>

\* [p.strip() for p in value.split(separator, 1)], separator in value
SplitOnce(value, separator) ==
    LET i == Find(value, separator)
    IN  << Strip(SubSeq(value, 1, i - 1)),
           Strip(SubSeq(value, i + Len(separator), Len(value))) >>

\* the loop over SEPARATORS from position k on: the parts it returns, or
\* <<>> when it ends without returning
RECURSIVE try_separators(_, _)
try_separators(value, k) ==
    IF k > Len(SEPARATORS)
    THEN <<>>
    ELSE LET separator == SEPARATORS[k]
         IN  IF Contains(value, separator)
             THEN LET parts == SplitOnce(value, separator)
                  IN  IF parts[1] # <<>> /\ parts[2] # <<>>
                      THEN parts
                      ELSE try_separators(value, k + 1)
             ELSE try_separators(value, k + 1)

DoubleQuote == "\""

\* re.match(r'^(.*?)["](.+?)["]$', value): the groups, stripped, or <<>>
\* when the value does not match.  The lazy first group ends before the
\* first quote that leaves a non-empty second group before a final quote.
quoted_match(value) ==
    IF /\ Len(value) >= 3
       /\ value[Len(value)] = DoubleQuote
       /\ Find(value, <<DoubleQuote>>) <= Len(value) - 2
    THEN LET p == Find(value, <<DoubleQuote>>)
         IN  << Strip(SubSeq(value, 1, p - 1)),
                Strip(SubSeq(value, p + 1, Len(value) - 1)) >>
    ELSE <<>>

parse_artist_title_from_single(v) ==
    LET value == Strip(v)
        parts == try_separators(value, 1)
        match == quoted_match(value)
    IN  IF parts # <<>>
        THEN parts
        ELSE IF match # <<>> /\ match[1] # <<>> /\ match[2] # <<>>
        THEN match
        ELSE << <<>>, value >>

\* ------------------------------------------------------------------------
\* The splitter applied to cell values (SplitSpec)
\* ------------------------------------------------------------------------

\* longest cell value handed to the splitter
MaxValueLen == 5

\* a letter, the space, the quote and every character of SEPARATORS
ValueChars == {"a", " ", DoubleQuote, "-", EmDash, EnDash, ":", "|", MiddleDot}

SplitInit ==
    /\ NoBatch
    /\ args \in
          UNION { [1..n -> ValueChars] : n \in 0..MaxValueLen }
    /\ result = <<>>

apply_parse_artist_title_from_single ==
    /\ result = <<>>
    /\ result' = <<parse_artist_title_from_single(args)>>
    /\ UNCHANGED <<args, dvars>>

SplitSpec == SplitInit /\ [][apply_parse_artist_title_from_single]_vars

\* the value the splitter works on
Trimmed == Strip(args)

\* the trimmed parts left and right of the first occurrence of sep in v
\* (empty when sep does not occur)
CutAtFirst(v, sep) ==
    { << Strip(SubSeq(v, 1, i - 1)), Strip(SubSeq(v, i + Len(sep), Len(v))) >> :
        i \in { i \in 1..(Len(v) - Len(sep) + 1) :
                  /\ SubSeq(v, i, i + Len(sep) - 1) = sep
                  /\ \A j \in 1..(i - 1) : SubSeq(v, j, j + Len(sep) - 1) # sep } }

\* separator k gives two non-empty trimmed parts
Gives(v, k) ==
    \E p \in CutAtFirst(v, SEPARATORS[k]) : p[1] # <<>> /\ p[2] # <<>>

\* the quoted form: v is x "y" where x holds no quote and y is not empty;
\* the pair of the trimmed x and y when neither is empty
QuotedForm(v) ==
    { p \in { << Strip(SubSeq(v, 1, q - 1)), Strip(SubSeq(v, q + 1, Len(v) - 1)) >> :
                q \in { q \in 1..(Len(v) - 2) :
                          /\ v[q] = DoubleQuote
                          /\ v[Len(v)] = DoubleQuote
                          /\ \A j \in 1..(q - 1) : v[j] # DoubleQuote } } :
        p[1] # <<>> /\ p[2] # <<>> }

Or(a, b) == IF Truthy(a) THEN a ELSE b

\* TrackItem(artist=, title=, query=, target_stub=, url=): the other fields
\* take the defaults of the dataclass
NewTrackItem(artist, title, query, target_stub, u) ==
    [artist |-> artist, title |-> title, query |-> query,
     target_stub |-> target_stub] @@ TrackItem(u)

\* "not artist and not title" with a row skipped as soon as one is empty
EitherEmpty(artist, title) == artist = <<>> \/ title = <<>>

\* not artist and not title
BothEmpty(artist, title) == artist = <<>> /\ title = <<>>

\* f"{artist} - {title}".strip(" -")
make_query(artist, title) ==
    StripChars(artist \o <<" ", "-", " ">> \o title, {" ", "-"})

\* (artist, title) of one preview row
resolve_row(row, artist_col, track_col, single_col) ==
    IF Truthy(single_col)
    THEN parse_artist_title_from_single(Get(row, single_col[1]))
    ELSE << Strip(IF Truthy(artist_col) THEN Get(row, artist_col[1]) ELSE <<>>),
            Strip(IF Truthy(track_col) THEN Get(row, track_col[1]) ELSE <<>>) >>

\* the loop over detection.preview_rows from position i on
RECURSIVE build_scan(_, _, _, _, _, _)
build_scan(rows, artist_col, track_col, single_col, i, built) ==
    IF i > Len(rows)
    THEN built
    ELSE LET at == resolve_row(rows[i], artist_col, track_col, single_col)
             artist == at[1]
             title == at[2]
             query == make_query(artist, title)
             stub == IF query # <<>> THEN query
                     ELSE IF title # <<>> THEN title ELSE artist
         IN  IF BothEmpty(artist, title) \/ query = <<>>
             THEN build_scan(rows, artist_col, track_col, single_col, i + 1,
                             built)
             ELSE build_scan(rows, artist_col, track_col, single_col, i + 1,
                             Append(built,
                                    NewTrackItem(artist, title, query, stub,
                                                 "None")))

build_track_items(detection, artist_col_override, track_col_override) ==
    build_scan(detection.preview_rows,
               Or(artist_col_override, detection.artist_col),
               Or(track_col_override, detection.track_col),
               detection.single_title_col,
               1, <<>>)

\* ------------------------------------------------------------------------
\* The builder applied to detections and column overrides (BuildSpec)
\* ------------------------------------------------------------------------

BuildHeaders == { Chars("Artist"), Chars("Title") }

\* a column choice: None or one of the headers
ColumnChoices == {None} \cup {Some(h) : h \in BuildHeaders}

\* the column roles _detect_columns returns for these headers
BuildColumns ==
    { c \in { Columns(a, t, s) : a \in ColumnChoices, t \in ColumnChoices,
                                 s \in ColumnChoices } :
        \/ c.artist_col # None /\ c.track_col # None /\ c.single_col = None
                               /\ c.artist_col # c.track_col
        \/ c.artist_col = None /\ c.track_col # None /\ c.single_col = None
        \/ c.artist_col = None /\ c.track_col = None /\ c.single_col # None }

\* cells as load_csv stores them; the first row of a headerless table is
\* stored untrimmed
BuildCells == { <<>>, Chars("-"), Chars(" b:a") }

BuildInit ==
    /\ NoBatch
    /\ args \in
          { [detection |-> [artist_col |-> c.artist_col, track_col |-> c.track_col,
                            single_title_col |-> c.single_col, preview_rows |-> rs],
             artist_col_override |-> ao, track_col_override |-> to] :
              c \in BuildColumns,
              rs \in UNION { [1..n -> [BuildHeaders -> BuildCells]] : n \in 1..MaxRows },
              ao \in ColumnChoices, to \in ColumnChoices }
    /\ result = <<>>

apply_build_track_items ==
    /\ result = <<>>
    /\ result' = <<build_track_items(args.detection, args.artist_col_override,
                                     args.track_col_override)>>
    /\ UNCHANGED <<args, dvars>>

BuildSpec == BuildInit /\ [][apply_build_track_items]_vars

\* (artist, title) the builder resolves for preview row r
Resolved(r) ==
    resolve_row(args.detection.preview_rows[r],
                Or(args.artist_col_override, args.detection.artist_col),
                Or(args.track_col_override, args.detection.track_col),
                args.detection.single_title_col)

\* rows that yield no item: artist and title both empty, or an empty query
Skipped(r) ==
    \/ Resolved(r)[1] = <<>> /\ Resolved(r)[2] = <<>>
    \/ StripChars(Resolved(r)[1] \o Chars(" - ") \o Resolved(r)[2],
                  {" ", "-"}) = <<>>

KeptRows == {r \in 1..Len(args.detection.preview_rows) : ~Skipped(r)}

\* the j-th kept row, in row order
KeptRow(j) == CHOOSE r \in KeptRows : Cardinality({x \in KeptRows : x < r}) = j - 1

\* C16: every item built has status Pending, a non-empty query equal to
\* "{artist} - {title}" without boundary spaces and dashes, a non-empty
\* stub and not both artist and title empty; rows with empty artist and
\* title or with an empty query yield no item, every other row yields one,
\* and the items are in the order of their rows.
C16_BuiltItems ==
    result # <<>> =>
        LET items == result[1]
        IN  /\ \A j \in 1..Len(items) :
                   /\ items[j].status = "pending"
                   /\ items[j].query # <<>>
                   /\ items[j].query
                          = StripChars(items[j].artist \o Chars(" - ")
                                           \o items[j].title, {" ", "-"})
                   /\ items[j].target_stub # <<>>
                   /\ ~(items[j].artist = <<>> /\ items[j].title = <<>>)
            /\ Len(items) = Cardinality(KeptRows)
            /\ \A j \in 1..Len(items) :
                   /\ items[j].artist = Resolved(KeptRow(j))[1]
                   /\ items[j].title = Resolved(KeptRow(j))[2]

\* two rows in separate-column mode: the first has only dashes and is
\* skipped, the second has an empty artist and yields the only item
C16_Witness ==
    /\ result # <<>>
    /\ Len(args.detection.preview_rows) = 2
    /\ args.detection.single_title_col = None
    /\ Skipped(1)
    /\ Resolved(1) # << <<>>, <<>> >>
    /\ Resolved(2)[1] = <<>>
    /\ Len(result[1]) = 1
    /\ result[1][1].title = Resolved(2)[2]

\* ------------------------------------------------------------------------
\* core/url_processor.py
\* ------------------------------------------------------------------------

\* the literal part of each YOUTUBE_PATTERNS entry, in list order.  Every
\* pattern is (?:https?://)?(?:www\.)?<literal>([a-zA-Z0-9_-]+) (the last
\* one with m\. for www\.) and is used with re.search, so the optional
\* groups decide neither whether it matches nor what group 1 holds.
YOUTUBE_PATTERNS ==
    << Chars("youtube.com/watch?v="), Chars("youtu.be/"),
       Chars("youtube.com/playlist?list="), Chars("youtube.com/embed/"),
       Chars("youtube.com/watch?v=") >>

\* [a-zA-Z0-9_-]
IdChars == WordChars \cup {"-"}

\* positions where the literal occurs (re.IGNORECASE) followed by at least
\* one identifier character
Occurrences(url, literal) ==
    LET lowered == Lower(url)
    IN  { i \in 1..(Len(url) - Len(literal)) :
            /\ SubSeq(lowered, i, i + Len(literal) - 1) = literal
            /\ url[i + Len(literal)] \in IdChars }

\* the greedy ([a-zA-Z0-9_-]+) starting at position start
IdRun(url, start) ==
    LET e == CHOOSE e \in start..Len(url) :
                 /\ \A j \in start..e : url[j] \in IdChars
                 /\ (e = Len(url) \/ url[e + 1] \notin IdChars)
    IN  SubSeq(url, start, e)

\* pattern.search(url): group 1 of the leftmost match, or None
pattern_search(url, k) ==
    LET literal == YOUTUBE_PATTERNS[k]
        found == Occurrences(url, literal)
    IN  IF found = {}
        THEN None
        ELSE LET i == CHOOSE i \in found : \A j \in found : i <= j
             IN  Some(IdRun(url, i + Len(literal)))

is_valid_youtube_url(url) ==
    LET u == Strip(url)
    IN  /\ u # <<>>
        /\ \E k \in 1..Len(YOUTUBE_PATTERNS) : pattern_search(u, k) # None

extract_video_id(url) ==
    LET u == Strip(url)
        matching == {k \in 1..Len(YOUTUBE_PATTERNS) : pattern_search(u, k) # None}
    IN  IF matching = {}
        THEN None
        ELSE pattern_search(u, CHOOSE k \in matching : \A j \in matching : k <= j)

normalize_youtube_url(url) ==
    LET video_id == extract_video_id(url)
    IN  IF ~Truthy(video_id)
        THEN None
        ELSE Some(Chars("https://www.youtube.com/watch?v=") \o video_id[1])

\* _extract_title_from_url: the value of a title parameter of the query
\* string (taken as written, without percent-decoding), or None
extract_title_from_url(url) ==
    IF ~Contains(url, <<"?">>)
    THEN None
    ELSE LET query == SubSeq(url, Find(url, <<"?">>) + 1, Len(url))
             key == Chars("title=")
             starts == { i \in 1..(Len(query) - Len(key) + 1) :
                           /\ SubSeq(query, i, i + Len(key) - 1) = key
                           /\ (i = 1 \/ query[i - 1] = "&") }
         IN  IF starts = {}
             THEN None
             ELSE LET i == CHOOSE i \in starts : \A j \in starts : i <= j
                      rest == SubSeq(query, i + Len(key), Len(query))
                      value == IF Contains(rest, <<"&">>)
                               THEN SubSeq(rest, 1, Find(rest, <<"&">>) - 1)
                               ELSE rest
                  IN  IF value = <<>> THEN None ELSE Some(value)

create_track_from_url(url, title_override) ==
    IF ~is_valid_youtube_url(url)
    THEN None
    ELSE LET normalized_url == normalize_youtube_url(url)
             title == Or(title_override,
                         Or(extract_title_from_url(url),
                            Some(Chars("YouTube Video"))))[1]
         IN  IF ~Truthy(normalized_url)
             THEN None
             ELSE Some(NewTrackItem(<<>>, title, title, title, normalized_url[1]))

\* content.strip().split("\n") on a file given by its lines: the lines of
\* whitespace at both ends go, and an empty content still splits into one
\* empty line
content_lines(lines) ==
    LET blank == {lines[i] : i \in {i \in 1..Len(lines) : Strip(lines[i]) = <<>>}}
        kept == StripChars(lines, blank)
    IN  IF kept = <<>> THEN << <<>> >> ELSE kept

\* line.startswith(prefix)
StartsWith(line, prefix) ==
    Len(line) >= Len(prefix) /\ SubSeq(line, 1, Len(prefix)) = prefix

\* the duplicate check keyed by the line as written
SeenKeyRaw(line, normalized_url) == line

\* the key kept in seen_urls
SeenKey(line, normalized_url) == normalized_url

\* the loop over the lines from line_num on
RECURSIVE url_scan(_, _, _, _)
url_scan(lines, line_num, seen_urls, track_list) ==
    IF line_num > Len(lines)
    THEN track_list
    ELSE LET line == Strip(lines[line_num])
             normalized_url == normalize_youtube_url(line)
             track == create_track_from_url(normalized_url[1], None)
         IN  IF \/ line = <<>>
                \/ StartsWith(line, <<"#">>)
                \/ StartsWith(line, <<"/", "/">>)
             THEN url_scan(lines, line_num + 1, seen_urls, track_list)
             ELSE IF ~is_valid_youtube_url(line)
             THEN url_scan(lines, line_num + 1, seen_urls, track_list)
             ELSE IF ~Truthy(normalized_url)
             THEN url_scan(lines, line_num + 1, seen_urls, track_list)
             ELSE IF SeenKey(line, normalized_url[1]) \in seen_urls
             THEN url_scan(lines, line_num + 1, seen_urls, track_list)
             ELSE IF track = None
             THEN url_scan(lines, line_num + 1,
                           seen_urls \cup {SeenKey(line, normalized_url[1])},
                           track_list)
             ELSE url_scan(lines, line_num + 1,
                           seen_urls \cup {SeenKey(line, normalized_url[1])},
                           Append(track_list,
                                  [track[1] EXCEPT !.query =
                                      Chars("Line ") \o Decimal(line_num)
                                          \o Chars(": ") \o track[1].title]))

\* validate_file_path(file_path, must_exist=True)
validate_file_path(file) ==
    /\ ~Contains(file.path, Chars(".."))
    /\ file.exists
    /\ file.is_file

\* "if not tracks" read as "fewer than two tracks"
FewerThanTwo(track_list) == Len(track_list) < 2

\* not tracks
NoTracks(track_list) == Len(track_list) = 0

\* what a call gives back: the exception raised, or the value returned
Raise(exception) == [error |-> exception, value |-> <<>>]
Return(value) == [error |-> "None", value |-> value]

load_urls_from_text_file(file) ==
    IF ~file.exists THEN Raise("URLParsingError")
    ELSE IF ~file.is_file THEN Raise("URLParsingError")
    ELSE IF ~validate_file_path(file) THEN Raise("URLParsingError")
    ELSE IF ~file.readable THEN Raise("URLParsingError")
    ELSE LET track_list == url_scan(content_lines(file.lines), 1, {}, <<>>)
         IN  IF NoTracks(track_list)
             THEN Raise("URLParsingError")
             ELSE Return(track_list)

\* ------------------------------------------------------------------------
\* The URL list loader applied to files (UrlSpec)
\* ------------------------------------------------------------------------

\* most lines of a URL list
MaxLines == 4

\* the lines of the lists loaded here, each with the video identifier it
\* is written for ("" for a blank line, a comment or no recognised URL)
UrlCatalogue ==
    << [line |-> Chars("https://www.youtube.com/watch?v=a1"), id |-> "a1"],
       [line |-> Chars("https://youtu.be/a1"), id |-> "a1"],
       [line |-> Chars(" youtube.com/embed/b2 "), id |-> "b2"],
       [line |-> Chars("HTTPS://M.YOUTUBE.COM/WATCH?V=b2"), id |-> "b2"],
       [line |-> Chars("  "), id |-> ""],
       [line |-> Chars("# https://youtu.be/c3"), id |-> ""],
       [line |-> Chars("// later"), id |-> ""],
       [line |-> Chars("ftp://example.com/x"), id |-> ""] >>

UrlLines == {UrlCatalogue[i].line : i \in 1..Len(UrlCatalogue)}

UrlPaths == { Chars("urls.txt"), Chars("../urls.txt") }

\* a path that does not exist, a directory, a file that cannot be read, and
\* readable files of up to MaxLines lines
UrlInit ==
    /\ NoBatch
    /\ args \in
          { [path |-> Chars("urls.txt"), exists |-> FALSE, is_file |-> FALSE,
             readable |-> FALSE, lines |-> <<>>],
            [path |-> Chars("urls.txt"), exists |-> TRUE, is_file |-> FALSE,
             readable |-> FALSE, lines |-> <<>>],
            [path |-> Chars("urls.txt"), exists |-> TRUE, is_file |-> TRUE,
             readable |-> FALSE, lines |-> <<>>] }
          \cup
          { [path |-> p, exists |-> TRUE, is_file |-> TRUE, readable |-> TRUE,
             lines |-> ls] :
              p \in UrlPaths,
              ls \in UNION { [1..n -> UrlLines] : n \in 0..MaxLines } }
    /\ result = <<>>

apply_load_urls_from_text_file ==
    /\ result = <<>>
    /\ result' = <<load_urls_from_text_file(args)>>
    /\ UNCHANGED <<args, dvars>>

UrlSpec == UrlInit /\ [][apply_load_urls_from_text_file]_vars

\* the video identifier a line of UrlLines is written for
ExpectedId ==
    [l \in UrlLines |->
        UrlCatalogue[CHOOSE i \in 1..Len(UrlCatalogue) : UrlCatalogue[i].line = l].id]

\* positions of the valid lines of the file
ValidLines == {i \in 1..Len(args.lines) : ExpectedId[args.lines[i]] # ""}

\* valid lines whose identifier no earlier valid line has
FirstOccurrences ==
    {i \in ValidLines :
        \A j \in ValidLines :
            j < i => ExpectedId[args.lines[j]] # ExpectedId[args.lines[i]]}

\* the k-th of them, in file order
FirstOccurrence(k) ==
    CHOOSE i \in FirstOccurrences :
        Cardinality({j \in FirstOccurrences : j < i}) = k - 1

Loaded == result # <<>> /\ result[1].error = "None"

C18_FailsIffNoValidItem ==
    (result # <<>> /\ args.exists /\ args.is_file /\ args.readable) =>
        /\ result[1].error = "URLParsingError" <=> ValidLines = {}
        /\ ValidLines # {} => Loaded /\ result[1].value # <<>>

\* C18 as amended: loading an existing readable file whose path does not
\* contain ".." raises the parsing error exactly when no valid item
\* results; with at least one valid line it returns a non-empty list.
C18_FailsIffNoValidItemSafePath ==
    (/\ result # <<>> /\ args.exists /\ args.is_file /\ args.readable
     /\ ~Contains(args.path, Chars(".."))) =>
        /\ result[1].error = "URLParsingError" <=> ValidLines = {}
        /\ ValidLines # {} => Loaded /\ result[1].value # <<>>

\* a comment, a malformed line, a valid line and its duplicate: the batch
\* is returned with the one item
C18_Witness ==
    /\ Loaded
    /\ args.path = Chars("urls.txt")
    /\ args.lines = << Chars("# https://youtu.be/c3"),
                       Chars("ftp://example.com/x"),
                       Chars("HTTPS://M.YOUTUBE.COM/WATCH?V=b2"),
                       Chars(" youtube.com/embed/b2 ") >>
    /\ Len(result[1].value) = 1

\* ------------------------------------------------------------------------
\* bytes.decode(encoding, errors) for the encodings sniff_csv names
\* ------------------------------------------------------------------------

\* the characters of the code points 32..126
Ascii ==
    Chars(" !\"#$%&'()*+,-./0123456789:;<=>?@ABCDEFGHIJKLMNOPQRSTUVWXYZ[\\]^_")
    \o <<"chr(96)">> \o Chars("abcdefghijklmnopqrstuvwxyz{|}~")

\* the character of a code point
chr(c) ==
    CASE c \in 32..126 -> Ascii[c - 31]
      [] c = 9 -> "\t"
      [] c = 10 -> "\n"
      [] c = 13 -> "\r"
      [] c = 183 -> MiddleDot
      [] c = 8211 -> EnDash
      [] c = 8212 -> EmDash
      [] OTHER -> "chr(" \o ToString(c) \o ")"

\* the code points of the bytes 128..159 in cp1252, 0 where undefined
cp1252 ==
    << 8364, 0, 8218, 402, 8222, 8230, 8224, 8225, 710, 8240, 352, 8249, 338,
       0, 381, 0, 0, 8216, 8217, 8220, 8221, 8226, 8211, 8212, 732, 8482, 353,
       8250, 339, 0, 382, 376 >>

\* the ranges of the bytes that follow the lead byte b of a UTF-8 sequence
utf8_tail(b) ==
    CASE b \in 194..223 -> << 128..191 >>
      [] b = 224 -> << 160..191, 128..191 >>
      [] b \in (225..239) \ {237} -> << 128..191, 128..191 >>
      [] b = 237 -> << 128..159, 128..191 >>
      [] b = 240 -> << 144..191, 128..191, 128..191 >>
      [] b \in 241..243 -> << 128..191, 128..191, 128..191 >>
      [] b = 244 -> << 128..143, 128..191, 128..191 >>
      [] OTHER -> <<>>

\* raw.decode("utf-8", errors) from byte i on, text being decoded so far;
\* errors = "replace" puts U+FFFD for each ill-formed run and never raises
RECURSIVE utf8_decode(_, _, _, _)
utf8_decode(raw, i, errors, text) ==
    IF i > Len(raw) THEN Return(text)
    ELSE IF raw[i] < 128
    THEN utf8_decode(raw, i + 1, errors, Append(text, chr(raw[i])))
    ELSE LET tail == utf8_tail(raw[i])
             k == Cardinality({ j \in 1..Len(tail) :
                                  \A m \in 1..j : /\ i + m <= Len(raw)
                                                  /\ raw[i + m] \in tail[m] })
             lead == CASE Len(tail) = 1 -> raw[i] - 192
                       [] Len(tail) = 2 -> raw[i] - 224
                       [] OTHER -> raw[i] - 240
             code == CASE k = 1 -> lead * 64 + (raw[i + 1] - 128)
                       [] k = 2 -> lead * 4096 + (raw[i + 1] - 128) * 64
                                   + (raw[i + 2] - 128)
                       [] OTHER -> lead * 262144 + (raw[i + 1] - 128) * 4096
                                   + (raw[i + 2] - 128) * 64 + (raw[i + 3] - 128)
         IN  IF tail # <<>> /\ k = Len(tail)
             THEN utf8_decode(raw, i + 1 + k, errors, Append(text, chr(code)))
             ELSE IF errors = "replace"
             THEN utf8_decode(raw, i + 1 + k, errors, Append(text, chr(65533)))
             ELSE Raise("UnicodeDecodeError")

\* raw.decode(encoding, errors)
decode(raw, encoding, errors) ==
    CASE encoding = "utf-8-sig" ->
           IF Len(raw) >= 3 /\ SubSeq(raw, 1, 3) = <<239, 187, 191>>
           THEN utf8_decode(SubSeq(raw, 4, Len(raw)), 1, errors, <<>>)
           ELSE utf8_decode(raw, 1, errors, <<>>)
      [] encoding = "utf-8" -> utf8_decode(raw, 1, errors, <<>>)
      [] encoding = "latin-1" -> Return([i \in 1..Len(raw) |-> chr(raw[i])])
      [] encoding = "cp1252" ->
           IF errors # "replace"
              /\ \E i \in 1..Len(raw) : raw[i] \in 128..159 /\ cp1252[raw[i] - 127] = 0
           THEN Raise("UnicodeDecodeError")
           ELSE Return([i \in 1..Len(raw) |->
                           IF raw[i] \notin 128..159 THEN chr(raw[i])
                           ELSE IF cp1252[raw[i] - 127] = 0 THEN chr(65533)
                           ELSE chr(cp1252[raw[i] - 127])])

\* ------------------------------------------------------------------------
\* core/csv_parser.py: sniff_csv, load_csv
\* ------------------------------------------------------------------------

\* CSVParser.__init__ defaults
max_preview_rows == 200
sample_bytes == 64 * 1024

\* the encodings sniff_csv tries, in order
encodings == << "utf-8-sig", "utf-8", "latin-1", "cp1252" >>

\* the for/else over the encodings from position i on: the first encoding
\* whose decode does not raise, "utf-8-sig" when the loop runs out
RECURSIVE try_encodings(_, _)
try_encodings(raw, i) ==
    IF i > Len(encodings) THEN "utf-8-sig"
    ELSE IF decode(raw, encodings[i], "replace").error = "None"
    THEN encodings[i]
    ELSE try_encodings(raw, i + 1)

\* the dialect of a comma-delimited sample: csv.Sniffer finds it, or
\* DefaultDialect stands in
DefaultDialect ==
    [delimiter |-> ",", quotechar |-> DoubleQuote, skipinitialspace |-> TRUE]

\* sniff_csv on a file that opens; has_header is csv.Sniffer's verdict on
\* the decoded sample
sniff_csv(file) ==
    IF ~file.exists \/ ~file.readable THEN Raise("OSError")
    ELSE LET raw == SubSeq(file.bytes, 1,
                           IF Len(file.bytes) < sample_bytes
                           THEN Len(file.bytes) ELSE sample_bytes)
         IN  Return([has_header |-> file.has_header,
                     dialect |-> [DefaultDialect EXCEPT
                                    !.skipinitialspace = file.skipinitialspace],
                     encoding |-> try_encodings(raw, 1)])

\* s.split(c)
RECURSIVE Split(_, _)
Split(s, c) ==
    IF \A i \in 1..Len(s) : s[i] # c THEN <<s>>
    ELSE LET i == CHOOSE i \in 1..Len(s) :
                      s[i] = c /\ \A j \in 1..(i - 1) : s[j] # c
         IN  <<SubSeq(s, 1, i - 1)>> \o Split(SubSeq(s, i + 1, Len(s)), c)

\* csv.reader over a text without quote characters: one list of cells per
\* line, the empty list for an empty line; with skipinitialspace the spaces
\* that open a cell are dropped
csv_reader(text, dialect) ==
    LET pieces == Split(text, "\n")
        lines == IF pieces[Len(pieces)] = <<>>
                 THEN SubSeq(pieces, 1, Len(pieces) - 1) ELSE pieces
    IN  [i \in 1..Len(lines) |->
            IF lines[i] = <<>> THEN <<>>
            ELSE LET cells == Split(lines[i], dialect.delimiter)
                 IN  [j \in 1..Len(cells) |->
                         IF dialect.skipinitialspace
                         THEN LStripChars(cells[j], {" "})
                         ELSE cells[j]]]

\* the rows csv.DictReader yields after the field names: empty rows are
\* skipped
dict_rows(table) ==
    LET kept == {i \in 2..Len(table) : table[i] # <<>>}
    IN  [n \in 1..Cardinality(kept) |->
            table[CHOOSE i \in kept : Cardinality({j \in kept : j <= i}) = n]]

\* clean_record of dict(zip(headers, row)), cells beyond the row being None
\* in a DictReader record and absent in a headerless one
clean_record(headers, row, padded) ==
    LET filled == IF padded THEN Len(headers)
                  ELSE IF Len(row) < Len(headers) THEN Len(row) ELSE Len(headers)
    IN  [h \in {headers[j] : j \in 1..filled} |->
            LET j == CHOOSE j \in 1..filled :
                        headers[j] = h /\ \A m \in (j + 1)..filled : headers[m] # h
            IN  IF j <= Len(row) THEN Strip(row[j]) ELSE <<>>]

\* the body of the try block of load_csv on the decoded text: the headers
\* and rows it leaves, or the exception it raises
read_rows(self, text, has_header, dialect) ==
    LET table == csv_reader(text, dialect)
    IN  IF has_header
        THEN LET headers == IF table = <<>> THEN <<>> ELSE table[1]
                 records == dict_rows(table)
                 n == IF Len(records) < self.max_preview_rows
                      THEN Len(records) ELSE self.max_preview_rows
             IN  IF \E i \in 1..n : Len(records[i]) > Len(headers)
                 THEN Raise("AttributeError")
                 ELSE Return([headers |-> headers,
                              rows |-> [i \in 1..n |->
                                           clean_record(headers, records[i], TRUE)]])
        ELSE IF table = <<>> THEN Raise("CSVParsingError")
        ELSE LET headers == [i \in 1..Len(table[1]) |-> SyntheticHeader(i)]
                 n == IF Len(table) - 1 < self.max_preview_rows
                      THEN Len(table) - 1 ELSE self.max_preview_rows
             IN  Return([headers |-> headers,
                         rows |-> [i \in 1..(n + 1) |->
                                      IF i = 1
                                      THEN [h \in {headers[j] : j \in 1..Len(headers)} |->
                                               table[1][CHOOSE j \in 1..Len(headers) :
                                                            headers[j] = h]]
                                      ELSE clean_record(headers, table[i], FALSE)]])

\* "if not rows" left out
NoRowsIgnored(rows) == FALSE

\* not rows
NoRows(rows) == Len(rows) = 0

load_csv(self, file) ==
    IF ~file.exists THEN Raise("CSVParsingError")
    ELSE LET sniffed == sniff_csv(file)
         IN  IF sniffed.error # "None" THEN Raise("CSVParsingError")
             ELSE LET encoding == sniffed.value.encoding
                      dialect == sniffed.value.dialect
                      text == decode(file.bytes, encoding, "strict")
                      read == IF text.error # "None" THEN text
                              ELSE read_rows(self, text.value,
                                             sniffed.value.has_header, dialect)
                  IN  IF read.error # "None" THEN Raise("CSVParsingError")
                      ELSE IF read.value.headers = <<>> THEN Raise("CSVParsingError")
                      ELSE IF NoRows(read.value.rows) THEN Raise("CSVParsingError")
                      ELSE LET columns == detect_columns(read.value.headers,
                                                         read.value.rows)
                           IN  Return([headers |-> read.value.headers,
                                       artist_col |-> columns.artist_col,
                                       track_col |-> columns.track_col,
                                       single_title_col |-> columns.single_col,
                                       dialect |-> dialect,
                                       preview_rows |-> read.value.rows,
                                       encoding |-> encoding])

\* ------------------------------------------------------------------------
\* The table loader applied to files (LoadSpec)
\* ------------------------------------------------------------------------

\* most bytes of a table file
MaxBytes == 5

\* the bytes of the files loaded here: "A", ",", "\n", " ", and two bytes
\* above 127: 0xE9 (Latin-1 e-acute; with 0x81 0x81 after it the UTF-8 for
\* U+9041) and 0x81 (undefined in cp1252)
CsvBytes == { 65, 44, 10, 32, 233, 129 }

\* a parser built with max_preview_rows 1 or the default; a path that does
\* not exist, a file that cannot be opened, and files of up to MaxBytes
\* bytes with either verdict of csv.Sniffer on the header row and on
\* skipinitialspace
LoadInit ==
    /\ NoBatch
    /\ args \in
          [method : {"sniff_csv", "load_csv"},
           self : {[max_preview_rows |-> n] : n \in {1, max_preview_rows}},
           path :
             { [exists |-> FALSE, readable |-> FALSE, bytes |-> <<>>,
                has_header |-> TRUE, skipinitialspace |-> TRUE],
               [exists |-> TRUE, readable |-> FALSE, bytes |-> <<>>,
                has_header |-> TRUE, skipinitialspace |-> TRUE] }
             \cup
             { [exists |-> TRUE, readable |-> TRUE, bytes |-> bs,
                has_header |-> hh, skipinitialspace |-> sk] :
                 bs \in UNION { [1..n -> CsvBytes] : n \in 0..MaxBytes },
                 hh \in BOOLEAN, sk \in BOOLEAN }]
    /\ result = <<>>

apply_sniff_csv ==
    /\ args.method = "sniff_csv"
    /\ result = <<>>
    /\ result' = <<sniff_csv(args.path)>>
    /\ UNCHANGED <<args, dvars>>

apply_load_csv ==
    /\ args.method = "load_csv"
    /\ result = <<>>
    /\ result' = <<load_csv(args.self, args.path)>>
    /\ UNCHANGED <<args, dvars>>

LoadSpec == LoadInit /\ [][apply_sniff_csv \/ apply_load_csv]_vars

\* ------------------------------------------------------------------------
\* Properties of the table loader
\* ------------------------------------------------------------------------

\* the lines of cells of a file as the encoding reported for it reads
\* them; no lines when the file cannot be opened or read with it
Table(file) ==
    IF sniff_csv(file).error # "None" THEN <<>>
    ELSE LET text == decode(file.bytes, sniff_csv(file).value.encoding, "strict")
         IN  IF text.error # "None" THEN <<>>
             ELSE csv_reader(text.value, sniff_csv(file).value.dialect)

\* the headers recovered: the cells of the first line, named or numbered
HeaderCount(file) == IF Table(file) = <<>> THEN 0 ELSE Len(Table(file)[1])

\* the data rows recovered: the non-empty lines after the header line, or
\* every line of a table without a header line
DataRowCount(file) ==
    IF file.has_header
    THEN Cardinality({i \in 2..Len(Table(file)) : Table(file)[i] # <<>>})
    ELSE Len(Table(file))

FirstThatDecodes(raw) ==
    LET good == {i \in 1..Len(encodings) :
                    decode(raw, encodings[i], "strict").error = "None"}
    IN  IF good = {} THEN "utf-8"
        ELSE encodings[CHOOSE i \in good : \A j \in good : i <= j]

\* C20: sniff_csv reports the first of utf-8-sig, utf-8, latin-1, cp1252
\* that decodes the sample without error, and UTF-8 when none does; the
\* encoding load_csv reports in a detection is the one sniff_csv reported,
\* with which the rows were read
C20_FirstEncodingThatDecodes ==
    /\ (args.method = "sniff_csv" /\ result # <<>> /\ result[1].error = "None") =>
           result[1].value.encoding = FirstThatDecodes(args.path.bytes)
    /\ (args.method = "load_csv" /\ result # <<>> /\ result[1].error = "None") =>
           result[1].value.encoding = sniff_csv(args.path).value.encoding

\* C21: a detection returned by load_csv holds at most max_preview_rows
\* preview rows and every cell of every preview row is whitespace-trimmed,
\* with a header row and with synthesized headers col_1, col_2, ...
C21_PreviewBoundedAndTrimmed ==
    (args.method = "load_csv" /\ result # <<>> /\ result[1].error = "None") =>
        LET rows == result[1].value.preview_rows
        IN  /\ Len(rows) <= args.self.max_preview_rows
            /\ \A r \in 1..Len(rows) : \A h \in DOMAIN rows[r] :
                   rows[r][h] = Strip(rows[r][h])

\* ------------------------------------------------------------------------
\* core/models.py: TrackItem.to_dict; ui/base_screen.py: export_results
\* ------------------------------------------------------------------------

\* a Python object handed to json: the name of its type and its value; a
\* float is held exactly, as the fraction num / den with den a power of two
Py(type, value) == [type |-> type, value |-> value]

\* an Optional[type] attribute as an object
Opt(type, attribute) ==
    IF attribute = None THEN Py("NoneType", None) ELSE Py(type, attribute[1])

\* TrackItem.to_dict(): the dict as its (key, value) pairs in insertion order
to_dict(self) ==
    << <<Chars("artist"), Py("str", self.artist)>>,
       <<Chars("title"), Py("str", self.title)>>,
       <<Chars("query"), Py("str", self.query)>>,
       <<Chars("status"), Py("str", Chars(self.status))>>,
       <<Chars("url"), Opt("str", self.url)>>,
       <<Chars("result_path"), Opt("str", self.result_path)>>,
       <<Chars("error"), Opt("str", self.error)>>,
       <<Chars("duration"), Opt("float", self.duration)>>,
       <<Chars("filesize"), Opt("int", self.filesize)>> >>

\* sep.join(parts)
RECURSIVE Join(_, _)
Join(parts, sep) ==
    IF parts = <<>> THEN <<>>
    ELSE IF Len(parts) = 1 THEN parts[1]
    ELSE Join(SubSeq(parts, 1, Len(parts) \div 2), sep) \o sep
         \o Join(SubSeq(parts, Len(parts) \div 2 + 1, Len(parts)), sep)

\* an ESCAPE_DCT that leaves the backslash as it is
escape_quote_only(c) ==
    CASE c = "\"" -> <<"\\", "\"">>
      [] c = "\n" -> <<"\\", "n">>
      [] c = "\r" -> <<"\\", "r">>
      [] c = "\t" -> <<"\\", "t">>
      [] OTHER -> <<c>>

\* json.encoder.ESCAPE_DCT as used with ensure_ascii=False: the replacement
\* of one character inside a string literal
escape(c) ==
    CASE c = "\\" -> <<"\\", "\\">>
      [] c = "\"" -> <<"\\", "\"">>
      [] c = "\n" -> <<"\\", "n">>
      [] c = "\r" -> <<"\\", "r">>
      [] c = "\t" -> <<"\\", "t">>
      [] OTHER -> <<c>>

\* float.__repr__ of a non-negative num / den that has a short expansion
RECURSIVE fraction_digits(_, _)
fraction_digits(num, den) ==
    IF num = 0 THEN <<>>
    ELSE Decimal((num * 10) \div den) \o fraction_digits((num * 10) % den, den)

float_repr(f) ==
    Decimal(f.num \div f.den) \o <<".">>
    \o (IF f.num % f.den = 0 THEN <<"0">> ELSE fraction_digits(f.num % f.den, f.den))

\* json.dumps(o, indent=2, ensure_ascii=False) of a scalar
dumps_scalar(o) ==
    CASE o.type = "NoneType" -> Chars("null")
      [] o.type = "str" ->
           <<"\"">> \o Join([i \in 1..Len(o.value) |-> escape(o.value[i])], <<>>)
           \o <<"\"">>
      [] o.type = "int" -> Decimal(o.value)
      [] o.type = "float" -> float_repr(o.value)

\* json.dumps(obj, indent=2, ensure_ascii=False) of a list of dicts
dumps(obj) ==
    LET dict(d) ==
            IF d = <<>> THEN Chars("{}")
            ELSE <<"{", "\n">> \o Chars("    ")
                 \o Join([k \in 1..Len(d) |->
                             dumps_scalar(Py("str", d[k][1])) \o <<":", " ">>
                             \o dumps_scalar(d[k][2])],
                         <<",", "\n">> \o Chars("    "))
                 \o <<"\n">> \o Chars("  ") \o <<"}">>
    IN  IF obj = <<>> THEN Chars("[]")
        ELSE <<"[", "\n">> \o Chars("  ")
             \o Join([k \in 1..Len(obj) |-> dict(obj[k])],
                     <<",", "\n">> \o Chars("  "))
             \o <<"\n", "]">>

\* ord(c), the inverse of chr
ord(c) ==
    CASE c = "\t" -> 9
      [] c = "\n" -> 10
      [] c = "\r" -> 13
      [] c = MiddleDot -> 183
      [] c = EnDash -> 8211
      [] c = EmDash -> 8212
      [] OTHER -> 31 + CHOOSE k \in 1..Len(Ascii) : Ascii[k] = c

\* text.encode("utf-8") for the code points below 0x10000
utf8_encode(text) ==
    Join([i \in 1..Len(text) |->
            LET code == ord(text[i])
            IN  CASE code < 128 -> <<code>>
                  [] code \in 128..2047 ->
                       <<192 + (code \div 64), 128 + (code % 64)>>
                  [] OTHER ->
                       <<224 + (code \div 4096), 128 + ((code \div 64) % 64),
                         128 + (code % 64)>>],
         <<>>)

\* export_results(): the bytes written to the output file, None when
\* there is nothing to export
export_results(track_items) ==
    IF track_items = <<>> THEN None
    ELSE Some(utf8_encode(dumps([k \in 1..Len(track_items) |->
                                    to_dict(track_items[k])])))

\* the number of items of an exported list
MaxItems == 2

\* the texts of the string attributes of the items
ItemTexts ==
    { <<>>, Chars("a\"b") \o <<"\\", "n", " ", "\\", EmDash, "\n", "\t", "/">> }

\* the other attributes of an item, one choice per status
ItemStates ==
    { [status |-> "pending", url |-> None, result_path |-> None, error |-> None,
       duration |-> None, filesize |-> None],
      [status |-> "searching", url |-> None, result_path |-> None,
       error |-> Some(<<>>), duration |-> None, filesize |-> Some(0)],
      [status |-> "found", url |-> Some(Chars("https://y/?v=") \o <<MiddleDot>>),
       result_path |-> None, error |-> None,
       duration |-> Some([num |-> 0, den |-> 1]), filesize |-> None],
      [status |-> "downloading", url |-> Some(<<>>), result_path |-> None,
       error |-> None, duration |-> Some([num |-> 1, den |-> 8]),
       filesize |-> None],
      [status |-> "done", url |-> Some(Chars("u")),
       result_path |-> Some(Chars("C:\\m\\n.mp3")), error |-> None,
       duration |-> Some([num |-> 427, den |-> 2]), filesize |-> Some(1024)],
      [status |-> "error", url |-> None, result_path |-> None,
       error |-> Some(Chars("\"null\",\n{[")), duration |-> Some([num |-> 10, den |-> 1]),
       filesize |-> None],
      [status |-> "skipped", url |-> None, result_path |-> Some(<<>>),
       error |-> Some(Chars("1.5")), duration |-> None, filesize |-> Some(70)] }

ExportInit ==
    /\ NoBatch
    /\ \E n \in 0..MaxItems :
           \E texts \in [1..n -> ItemTexts], states \in [1..n -> ItemStates] :
               args = [method |-> "export_results",
                       track_items |->
                           [k \in 1..n |->
                               [artist |-> texts[k], title |-> Chars("T/1"),
                                query |-> texts[k] \o Chars(" - T/1"),
                                target_stub |-> Chars("T_1")] @@ states[k]]]
    /\ result = <<>>

apply_export_results ==
    /\ result = <<>>
    /\ result' = <<export_results(args.track_items)>>
    /\ UNCHANGED <<args, dvars>>

ExportSpec == ExportInit /\ [][apply_export_results]_vars

\* json.loads: the scanner of json.decoder and json.scanner

\* the character at index i of s, "" past the end
At(s, i) == IF i \in 1..Len(s) THEN s[i] ELSE ""

\* a scan that failed, and one that gave an object and ended before index end
ScanFail == [ok |-> FALSE, value |-> None, end |-> 0]
ScanOk(value, end) == [ok |-> TRUE, value |-> value, end |-> end]

\* WHITESPACE.match(s, i).end()
RECURSIVE skip_ws(_, _)
skip_ws(s, i) == IF At(s, i) \in {" ", "\t", "\n", "\r"} THEN skip_ws(s, i + 1) ELSE i

\* json.decoder.BACKSLASH
BACKSLASH ==
    [c \in {"\"", "\\", "/", "n", "r", "t"} |->
        CASE c = "n" -> "\n" [] c = "r" -> "\r" [] c = "t" -> "\t" [] OTHER -> c]

\* py_scanstring(s, i) in strict mode, chars being the content read so far
RECURSIVE scanstring(_, _, _)
scanstring(s, i, chars) ==
    CASE At(s, i) = "\"" -> ScanOk(Py("str", chars), i + 1)
      [] At(s, i) = "\\" ->
           IF At(s, i + 1) \in DOMAIN BACKSLASH
           THEN scanstring(s, i + 2, Append(chars, BACKSLASH[At(s, i + 1)]))
           ELSE ScanFail
      [] At(s, i) \in {"", "\n", "\r", "\t"} -> ScanFail
      [] OTHER -> scanstring(s, i + 1, Append(chars, s[i]))

DecimalDigits == Chars("0123456789")

IsDigit(c) == \E k \in 1..10 : DecimalDigits[k] = c

\* the end of the run of digits that starts at index i
RECURSIVE digits_end(_, _)
digits_end(s, i) == IF IsDigit(At(s, i)) THEN digits_end(s, i + 1) ELSE i

\* int(digits)
RECURSIVE int(_)
int(digits) ==
    IF digits = <<>> THEN 0
    ELSE 10 * int(SubSeq(digits, 1, Len(digits) - 1))
         + (CHOOSE d \in 0..9 : DecimalDigits[d + 1] = digits[Len(digits)])

RECURSIVE Power(_, _)
Power(b, e) == IF e = 0 THEN 1 ELSE b * Power(b, e - 1)

\* NUMBER_RE without an exponent: an int, or a float when a fraction follows
scan_number(s, i) ==
    LET e == digits_end(s, i)
        f == digits_end(s, e + 1)
    IN  IF e = i \/ (e > i + 1 /\ s[i] = "0") THEN ScanFail
        ELSE IF At(s, e) = "." /\ f > e + 1
        THEN ScanOk(Py("float",
                       [num |-> int(SubSeq(s, i, e - 1) \o SubSeq(s, e + 1, f - 1)),
                        den |-> Power(10, f - e - 1)]), f)
        ELSE ScanOk(Py("int", int(SubSeq(s, i, e - 1))), e)

\* scan_once(s, i), with JSONArray and JSONObject reading their members
RECURSIVE scan_once(_, _)
RECURSIVE JSONArray(_, _, _)
RECURSIVE JSONObject(_, _, _)
scan_once(s, i) ==
    CASE At(s, i) = "\"" -> scanstring(s, i + 1, <<>>)
      [] At(s, i) = "{" ->
           IF At(s, skip_ws(s, i + 1)) = "}"
           THEN ScanOk(Py("dict", <<>>), skip_ws(s, i + 1) + 1)
           ELSE JSONObject(s, skip_ws(s, i + 1), <<>>)
      [] At(s, i) = "[" ->
           IF At(s, skip_ws(s, i + 1)) = "]"
           THEN ScanOk(Py("list", <<>>), skip_ws(s, i + 1) + 1)
           ELSE JSONArray(s, skip_ws(s, i + 1), <<>>)
      [] At(s, i) = "n" ->
           IF i + 3 <= Len(s) /\ SubSeq(s, i, i + 3) = Chars("null")
           THEN ScanOk(Py("NoneType", None), i + 4)
           ELSE ScanFail
      [] IsDigit(At(s, i)) -> scan_number(s, i)
      [] OTHER -> ScanFail

JSONArray(s, i, values) ==
    LET v == scan_once(s, i)
        j == skip_ws(s, v.end)
    IN  IF ~v.ok THEN ScanFail
        ELSE IF At(s, j) = ","
        THEN JSONArray(s, skip_ws(s, j + 1), Append(values, v.value))
        ELSE IF At(s, j) = "]"
        THEN ScanOk(Py("list", Append(values, v.value)), j + 1)
        ELSE ScanFail

JSONObject(s, i, pairs) ==
    LET key == IF At(s, i) = "\"" THEN scanstring(s, i + 1, <<>>) ELSE ScanFail
        colon == skip_ws(s, key.end)
        v == scan_once(s, skip_ws(s, colon + 1))
        j == skip_ws(s, v.end)
    IN  IF ~key.ok \/ At(s, colon) # ":" THEN ScanFail
        ELSE IF ~v.ok THEN ScanFail
        ELSE IF At(s, j) = ","
        THEN JSONObject(s, skip_ws(s, j + 1), Append(pairs, <<key.value.value, v.value>>))
        ELSE IF At(s, j) = "}"
        THEN ScanOk(Py("dict", Append(pairs, <<key.value.value, v.value>>)), j + 1)
        ELSE ScanFail

\* json.loads(s)
loads(s) ==
    LET v == scan_once(s, skip_ws(s, 1))
    IN  IF v.ok /\ skip_ws(s, v.end) = Len(s) + 1
        THEN Return(v.value)
        ELSE Raise("JSONDecodeError")

\* d[key] of a parsed object: the last pair with that key
Item(d, key) ==
    d.value[CHOOSE k \in 1..Len(d.value) :
                /\ d.value[k][1] = Chars(key)
                /\ \A m \in (k + 1)..Len(d.value) : d.value[m][1] # Chars(key)][2]

\* a == b of two objects
PyEq(a, b) ==
    /\ a.type = b.type
    /\ IF a.type = "float"
       THEN a.value.num * b.value.den = b.value.num * a.value.den
       ELSE a.value = b.value

\* path.read_text(encoding="utf-8"): the bytes are decoded in two halves cut
\* where a character starts, which gives what decoding them at once gives
RECURSIVE read_text(_)
read_text(raw) ==
    LET starts == { i \in (Len(raw) \div 2 + 1)..Len(raw) : raw[i] \notin 128..191 }
        cut == CHOOSE i \in starts : \A j \in starts : i <= j
        left == read_text(SubSeq(raw, 1, cut - 1))
        right == read_text(SubSeq(raw, cut, Len(raw)))
    IN  IF Len(raw) <= 16 \/ starts = {} THEN decode(raw, "utf-8", "strict")
        ELSE IF left.error # "None" THEN left
        ELSE IF right.error # "None" THEN right
        ELSE Return(left.value \o right.value)

\* the file of an export read back: json.loads(path.read_text("utf-8"))
ReadBack ==
    LET text == read_text(result[1][1])
    IN  IF text.error = "None" THEN loads(text.value) ELSE text

Exported ==
    /\ args.method = "export_results"
    /\ result # <<>>
    /\ result[1] # None

\* C22: an exported list parsed back has, item by item in the same order, the
\* same artist, title, query, status (its lowercase name), url, result_path,
\* error, duration and filesize
C22_ExportRoundTrip ==
    Exported =>
        /\ ReadBack.error = "None"
        /\ ReadBack.value.type = "list"
        /\ Len(ReadBack.value.value) = Len(args.track_items)
        /\ \A k \in 1..Len(args.track_items) :
               LET item == args.track_items[k]
                   d == ReadBack.value.value[k]
               IN  /\ d.type = "dict"
                   /\ {d.value[m][1] : m \in 1..Len(d.value)}
                         = {Chars(key) : key \in {"artist", "title", "query", "status",
                                                  "url", "result_path", "error",
                                                  "duration", "filesize"}}
                   /\ PyEq(Item(d, "artist"), Py("str", item.artist))
                   /\ PyEq(Item(d, "title"), Py("str", item.title))
                   /\ PyEq(Item(d, "query"), Py("str", item.query))
                   /\ PyEq(Item(d, "status"), Py("str", Lower(Chars(item.status))))
                   /\ PyEq(Item(d, "url"), Opt("str", item.url))
                   /\ PyEq(Item(d, "result_path"), Opt("str", item.result_path))
                   /\ PyEq(Item(d, "error"), Opt("str", item.error))
                   /\ PyEq(Item(d, "duration"), Opt("float", item.duration))
                   /\ PyEq(Item(d, "filesize"), Opt("int", item.filesize))

\* two items exported and read back: the first in Error with quotes,
\* backslashes and a dash outside ASCII in its artist, the second Done with an
\* empty artist and a path that holds backslashes
C22_Witness ==
    /\ Exported
    /\ Len(args.track_items) = 2
    /\ args.track_items[2].status = "done"
    /\ args.track_items[1].status = "error"
    /\ "\"" \in {args.track_items[1].artist[i] :
                    i \in 1..Len(args.track_items[1].artist)}
    /\ args.track_items[2].artist = <<>>
    /\ ReadBack.error = "None"

\* ------------------------------------------------------------------------
\* Properties of the lock, the pool and the item fields
\* ------------------------------------------------------------------------

\* positions inside download_track: search, retrieval and their log lines
InDownloadTrack == {"search", "found", "retrieve", "oklog", "errlog"}

\* C23: the lock of the pool is held only while the completion counter is
\* incremented (or a result inserted): its holder is never inside
\* download_track, and nothing else, such as the delivery of a progress
\* event, is done while it is held
C23_LockOnlyForCounter ==
    [][ /\ \A i \in Items : lock = i => dt[i] \notin InDownloadTrack
        /\ lock # 0 => progress' = progress ]_vars

\* every thread that can take a step eventually takes one: the batch thread
\* submits, the pool threads pick up queued items, take the lock and deliver
\* the progress event, and download_track goes on after each collaborator
\* call returns; the collaborator calls of item s alone may never return
PoolFairness(s) ==
    /\ WF_vars(clamp_workers)
    /\ WF_vars(submit)
    /\ \A i \in 1..NumTracks :
          /\ WF_vars(i \in Items /\ worker_start(i))
          /\ WF_vars(i \in Items /\ worker_lock(i))
          /\ WF_vars(i \in Items /\ worker_callback(i))
          /\ WF_vars(i \in Items /\ found_step(i))
          /\ WF_vars(i \in Items /\ success_log(i))
          /\ WF_vars(i \in Items /\ error_log(i))
          /\ i # s => /\ WF_vars(i \in Items /\ search_track(i))
                      /\ WF_vars(i \in Items /\ retrieve(i))

\* the batches run by download_multiple_concurrent, called directly or by
\* _download_concurrent
PoolNext ==
    \/ \E d \in BOOLEAN, mw \in RequestedWorkers : download_multiple_concurrent(d, mw)
    \/ clamp_workers
    \/ submit
    \/ \E i \in Items : worker_start(i)
    \/ \E i \in Items : worker_lock(i)
    \/ \E i \in Items : worker_callback(i)
    \/ \E i \in Items : as_completed(i)
    \/ executor_exit
    \/ \E i \in Items : search_track(i)
    \/ \E i \in Items : found_step(i)
    \/ \E i \in Items : retrieve(i)
    \/ \E i \in Items : success_log(i)
    \/ \E i \in Items : error_log(i)

\* a configuration of 2 workers: the requested counts of RequestedWorkers
\* give the pools of 1, 2 and 5 workers
PoolInit == Init /\ config = 2

PoolSpec ==
    PoolInit /\ [][PoolNext]_vars /\ \E s \in 1..NumTracks : PoolFairness(s)

\* the progress event of item i has been delivered
Delivered(i) == \E k \in DOMAIN progress : progress[k][3] = i

\* item i has its outcome and its progress event, or download_track raised
\* for it (a raising log callback)
Processed(i) == dt[i] = "raised" \/ (dt[i] = "finished" /\ Delivered(i))

\* all items are submitted to a pool of two or more workers
Dispatched == main = "collect" /\ max_workers[1] >= 2

LoopDone(k) == dt[k] \in {"finished", "caught"}

\* C25: a batch started behind the running flag is processed sequentially
\* when the effective worker count is 1 or it has a single item (at most one
\* item in flight, item k + 1 not started before item k is finished), and is
\* handed to a pool of that many workers otherwise
C25_SequentialOrPool ==
    entry \in Screens =>
        IF Clamp(config) = 1 \/ N = 1
        THEN /\ InFlight <= 1
             /\ max_workers = None
             /\ \A k \in 1..(N - 1) : ~Unstarted(k + 1) => LoopDone(k)
        ELSE (\E i \in Items : ~Unstarted(i)) =>
                 /\ Pooled \/ main \in {"completing", "complete"}
                 /\ max_workers = Some(Clamp(config))

\* C26: in one batch every submitted item is processed exactly once and by
\* one worker: at most one search and one retrieval per item, an item inside
\* a worker is changed by that worker's own steps only, and when a batch that
\* was not cancelled is over every item has been processed
C26_OncePerItem ==
    /\ [](\A i \in Items : calls[i].search <= 1 /\ calls[i].retrieve <= 1)
    /\ [][\A i \in Items :
            tracks'[i] # tracks[i] => (dt'[i] # dt[i] \/ dt[i] \notin Running)]_vars
    /\ []((BatchOver /\ ~cancelled) => \A i \in Items : ~Unstarted(i))

C28_FoundHasUrl ==
    \A i \in Items :
        tracks[i].status \in {"found", "downloading", "done"} =>
            tracks[i].url \notin {"None", ""}

\* the counts of _download_complete
success_count == Cardinality({i \in Items : tracks[i].status \in {"done", "found"}})
error_count == Cardinality({i \in Items : tracks[i].status = "error"})

\* C29: when a batch is over, the outcome returned for an item is a failure
\* exactly when the item is Error and a success exactly when it is Done (or
\* Found in dry-run); so the success and error counts of the summary of a
\* batch that was not cancelled add up to the number of items
C29_OutcomeAgreesWithStatus ==
    /\ BatchOver =>
          \A i \in Items :
              ret[i] # "none" =>
                  /\ ret[i] = "failure" <=> tracks[i].status = "error"
                  /\ ret[i] = "success" <=>
                        \/ tracks[i].status = "done"
                        \/ dry_run /\ tracks[i].status = "found"
    /\ (main = "complete" /\ ~cancelled) => success_count + error_count = N

\* ------------------------------------------------------------------------
\* Start and stop requests against worker threads that are still running
\* (ui/base_screen.py, ui/app.py): the sequential loop of each worker thread
\* ------------------------------------------------------------------------

\* the batches started on one screen
MaxBatches == 2

\* _start_downloads / action_start_downloads: refused while is_running; else
\* the flag is set and a thread is started on the new list of n items
request_start(n) ==
    /\ ~is_running
    /\ Len(workers) < MaxBatches
    /\ is_running' = TRUE
    /\ workers' = Append(workers, [total |-> n, completed |-> 0, at |-> "loop",
                                   stop_requested |-> FALSE])
    /\ UNCHANGED <<args, result, tracks, config, entry, dry_run, main, idx,
                   max_workers, dt, ret, lock, completed_count, progress,
                   results, cancelled, in_flight_at_stop, calls>>

\* _stop_downloads / action_stop_downloads: clears the flag; the batch it
\* cancels is the one started last
request_stop ==
    /\ is_running
    /\ workers # <<>>
    /\ is_running' = FALSE
    /\ workers' = [workers EXCEPT ![Len(workers)].stop_requested = TRUE]
    /\ UNCHANGED <<args, result, tracks, config, entry, dry_run, main, idx,
                   max_workers, dt, ret, lock, completed_count, progress,
                   results, cancelled, in_flight_at_stop, calls>>

\* `for item in self.track_items: if not self.is_running: break`, then the
\* item is handed to download_track
thread_loop(w) ==
    /\ workers[w].at = "loop"
    /\ workers' = [workers EXCEPT ![w].at =
                      IF workers[w].completed = workers[w].total \/ ~is_running
                      THEN "completing" ELSE "item"]
    /\ UNCHANGED <<args, result, tracks, config, is_running, entry, dry_run, main,
                   idx, max_workers, dt, ret, lock, completed_count, progress,
                   results, cancelled, in_flight_at_stop, calls>>

\* the item has been processed: completed += 1
thread_item(w) ==
    /\ workers[w].at = "item"
    /\ workers' = [workers EXCEPT ![w].completed = @ + 1, ![w].at = "loop"]
    /\ UNCHANGED <<args, result, tracks, config, is_running, entry, dry_run, main,
                   idx, max_workers, dt, ret, lock, completed_count, progress,
                   results, cancelled, in_flight_at_stop, calls>>

\* call_from_thread(self._download_complete): is_running = False, and the
\* thread ends
thread_complete(w) ==
    /\ workers[w].at = "completing"
    /\ is_running' = FALSE
    /\ workers' = [workers EXCEPT ![w].at = "exited"]
    /\ UNCHANGED <<args, result, tracks, config, entry, dry_run, main, idx,
                   max_workers, dt, ret, lock, completed_count, progress,
                   results, cancelled, in_flight_at_stop, calls>>

RestartNext ==
    \/ \E n \in 1..NumTracks : request_start(n)
    \/ request_stop
    \/ \E w \in DOMAIN workers : thread_loop(w)
    \/ \E w \in DOMAIN workers : thread_item(w)
    \/ \E w \in DOMAIN workers : thread_complete(w)

\* a screen on which nothing has been started
RestartInit == NoBatch /\ args = <<>> /\ result = <<>>

RestartSpec == RestartInit /\ [][RestartNext]_vars

\* C30: whatever the order of start requests, stop requests and worker
\* steps, at most one worker thread is processing an item, a batch whose
\* cancellation was requested starts no further item, and the completion
\* handler of a batch does not clear a running flag that a later batch set
C30_OneWorkerAndCancelSticks ==
    /\ [](Cardinality({w \in DOMAIN workers : workers[w].at = "item"}) <= 1)
    /\ [][\A w \in DOMAIN workers :
            (workers[w].stop_requested /\ workers[w].at = "loop") =>
                workers'[w].at # "item"]_vars
    /\ [][\A w \in DOMAIN workers :
            (workers[w].at = "completing" /\ workers'[w].at = "exited"
             /\ is_running) => w = Len(workers)]_vars

====
